---------------------------- MODULE Spec2Model ----------------------------
(***************************************************************************)
(* A model of the labx lab-report pipeline (balhaddad-sys/MedWard):        *)
(*   - run_concurrently / _extract_all   (pipeline/concurrency.py,         *)
(*                                        pipeline/orchestrator.py)        *)
(*   - DiskCache                         (storage/cache.py)                *)
(*   - merge_reports                     (pipeline/merge.py)               *)
(*   - compute_flag / parse_reference_range (domain/flags.py,              *)
(*                                        domain/reference.py)             *)
(* Each part has its own specification over the shared variables; the      *)
(* variables of the other parts stay at their idle values.                 *)
(***************************************************************************)
EXTENDS Integers, Sequences, FiniteSets, TLC

VARIABLES
    \* ---- run_full_pipeline / _extract_all / run_concurrently ----
    images,          \* the PreparedImage list: a sequence of image_id
    max_concurrent,  \* Settings.concurrency, handed to run_concurrently
    cache_enabled,   \* Settings.cache_enabled
    sem,             \* asyncio.Semaphore._value
    st,              \* per task: "pending" | "running" | "done" | "failed"
    taskResult,      \* per task: what fn() returned or raised
    phase,           \* run_concurrently: "gather" | "returned" | "raised"
    outcome,         \* the list returned, or the exception raised
    finishOrder,     \* history: task indices in the order they finished
    lateStarts,      \* history: tasks that entered fn() after a failure
    \* ---- DiskCache ----
    files,           \* cache directory: image_id -> state of <id>.json
    cacheCall,       \* the last DiskCache call and how it ended
    \* ---- merge_reports ----
    reports,         \* the list[LabReport] handed to merge_reports
    merged,          \* the list[LabAnalyte] it returned
    mergePhase,      \* "building" (input being extracted) | "merged"
    \* ---- parse_reference_range / compute_flag ----
    ref_range,       \* the analyte's ReferenceRange: [low, high]
    analyte_key,     \* the analyte's key
    observation,     \* the observation: [value, flag_computed]
    \* ---- run_full_pipeline / run_extract_only ----
    image_paths,     \* what load_image finds at each path handed in
    max_images,      \* settings.max_images
    mode,            \* "full" (run_full_pipeline) | "extract_only"
    enable_summary,  \* whether a summary is asked for
    pc,              \* "load" | "extract" | "summary" | "done" | "failed"
    extract_calls,   \* the images extractor.extract was called for
    extracted,       \* per image: None, the report extracted, or its failure
    error,           \* the exception the coroutine ended with, or None
    trends,          \* AnalysisReport.trends
    critical_flags,  \* AnalysisReport.critical_flags
    summary,         \* AnalysisReport.summary
    summarize_calls, \* how often summarizer.summarize was called
    \* ---- parse_reference_range on its own ----
    range_text,      \* the raw string handed to parse_reference_range
    parsed           \* the ReferenceRange it returned, or None

concVars == <<images, max_concurrent, cache_enabled, sem, st, taskResult,
              phase, outcome, finishOrder, lateStarts>>
cacheVars == <<files, cacheCall>>
mergeVars == <<reports, merged, mergePhase>>
flagVars == <<ref_range, analyte_key, observation>>
pipeVars == <<image_paths, max_images, mode, enable_summary, pc, extract_calls,
              extracted, error, trends, critical_flags, summary, summarize_calls>>
parseVars == <<range_text, parsed>>
vars == <<concVars, cacheVars, mergeVars, flagVars, pipeVars, parseVars>>

\* Python's None, where a slot holds nothing yet.
None == [kind |-> "none"]

(***************************************************************************)
(* Bounds and input domains                                                *)
(***************************************************************************)
MaxImages == 3
MaxConcurrent == 2
MaxReports == 2
MaxAnalytes == 2
MaxObservations == 2
MaxPaths == 2
MaxSeries == 5
MaxTrends == 3
MaxText == 4

\* source_image_id of the reports that are merged
SourceIds == {"img1", "img2"}
\* Observation dates (day numbers) and values (in units of 0.00001)
Dates == {1, 2}
ObsValues == {14000000, 14200000}

\* PreparedImage.image_id of the i-th input path: the SHA-256 digest of the
\* file, here a number; the input images are pairwise different files.
ImageId(i) == 100 + i

\* A LabReport as far as the executor sees it: extract() sets
\* report.source_image_id = image.image_id.
Report(id) == [kind |-> "report", source_image_id |-> id]
\* The exception raised by task i's external call.
Failure(i) == [kind |-> "exception", task |-> i]
IsException(x) == x.kind = "exception"
\* The (idx, result) tuple _guarded returns.
Item(i, r) == [kind |-> "item", idx |-> i, val |-> r]

\* What lies at DiskCache._path(image_id):
\*   absent      no file
\*   valid       a file holding a serialized LabReport
\*   unreadable  a file whose read_text fails
\*   partial     a file cut short by an interrupted write: not JSON
\*   invalid     JSON that does not validate as a LabReport
FileStates == {"absent", "valid", "unreadable", "partial", "invalid"}

Tasks == 1..Len(images)

(***************************************************************************)
(* run_concurrently                                                        *)
(***************************************************************************)
AnyFailed == \E i \in Tasks : st[i] = "failed"
AllFinished == \A i \in Tasks : st[i] \in {"done", "failed"}
Running == {i \in Tasks : st[i] = "running"}

CanAcquireUnguarded == sem >= 0

\* _guarded: `async with semaphore` -- Semaphore.acquire() passes while the
\* value is positive and decrements it.
CanAcquire == sem > 0

\* _guarded(idx, fn): acquire a slot and enter `await fn()`.
\* _extract_all builds fn as extractor.extract(img): no cache lookup is made.
StartTask(i) ==
    /\ phase = "gather"
    /\ st[i] = "pending"
    /\ CanAcquire
    /\ sem' = sem - 1
    /\ st' = [st EXCEPT ![i] = "running"]
    /\ lateStarts' = IF AnyFailed THEN lateStarts \cup {i} ELSE lateStarts
    /\ UNCHANGED <<images, max_concurrent, cache_enabled, taskResult, phase,
                   outcome, finishOrder>>

\* fn() returns: _guarded returns (idx, result); __aexit__ releases the slot.
FinishTask(i) ==
    /\ phase = "gather"
    /\ st[i] = "running"
    /\ st' = [st EXCEPT ![i] = "done"]
    /\ taskResult' = [taskResult EXCEPT ![i] = Item(i, Report(images[i]))]
    /\ sem' = sem + 1
    /\ finishOrder' = Append(finishOrder, i)
    /\ UNCHANGED <<images, max_concurrent, cache_enabled, phase, outcome,
                   lateStarts>>

\* fn() raises: the exception leaves `async with`, which releases the slot;
\* gather(return_exceptions=True) keeps the exception as the task's item.
FailTask(i) ==
    /\ phase = "gather"
    /\ st[i] = "running"
    /\ st' = [st EXCEPT ![i] = "failed"]
    /\ taskResult' = [taskResult EXCEPT ![i] = Failure(i)]
    /\ sem' = sem + 1
    /\ finishOrder' = Append(finishOrder, i)
    /\ UNCHANGED <<images, max_concurrent, cache_enabled, phase, outcome,
                   lateStarts>>

GatherReadyFailFast == AllFinished \/ AnyFailed

\* asyncio.gather(*coros, return_exceptions=True) resumes its awaiter once
\* every awaitable has finished, whether it returned or raised.
GatherReady == AllFinished

\* (variant) the items come in the order in which the tasks ended
CompletedAsFinished == [k \in Tasks |-> taskResult[finishOrder[k]]]

\* gather's result list: one item per awaitable, in the order they were passed.
Completed == [k \in Tasks |-> taskResult[k]]

\* The items of `completed` that are exceptions, by position.
ExceptionItems(completed) ==
    {k \in DOMAIN completed : IsException(completed[k])}

Min(S) == CHOOSE x \in S : \A y \in S : x <= y

OrderedByCompletion(completed) ==
    [k \in DOMAIN completed |-> completed[finishOrder[k]].val]

\* ordered = [None] * len(tasks); for idx, val in completed: ordered[idx] = val
Ordered(completed) ==
    [j \in DOMAIN completed |->
        LET hits == {k \in DOMAIN completed : completed[k].kind = "item" /\ completed[k].idx = j}
        IN IF hits = {} THEN None ELSE completed[Min(hits)].val]

\* The loop after gather: the first exception item in list order is re-raised,
\* otherwise the ordered list is returned.
Collect ==
    /\ phase = "gather"
    /\ GatherReady
    /\ LET completed == Completed
           excs == ExceptionItems(completed)
       IN IF excs # {}
          THEN /\ phase' = "raised"
               /\ outcome' = [kind |-> "raised", exc |-> completed[Min(excs)]]
          ELSE /\ phase' = "returned"
               /\ outcome' = [kind |-> "returned", value |-> Ordered(completed)]
    /\ UNCHANGED <<images, max_concurrent, cache_enabled, sem, st, taskResult,
                   finishOrder, lateStarts>>

(***************************************************************************)
(* DiskCache                                                               *)
(***************************************************************************)
\* Cache keys used when DiskCache is exercised on its own.
CacheKeys == {"k1", "k2"}

\* The exception classes the calls in get and put can raise; all derive from
\* Exception.
ExceptionClasses == {"OSError", "JSONDecodeError", "ValidationError"}

\* The body of get's try block: read_text, json.loads, LabReport.model_validate.
ReadEntry(state) ==
    CASE state = "valid"      -> [raises |-> "no", report |-> TRUE]
      [] state = "unreadable" -> [raises |-> "OSError", report |-> FALSE]
      [] state = "partial"    -> [raises |-> "JSONDecodeError", report |-> FALSE]
      [] state = "invalid"    -> [raises |-> "ValidationError", report |-> FALSE]

GetCatchesOnlyJson(e) == e = "JSONDecodeError"

\* get's handler: `except Exception`.
GetCatches(e) == e \in ExceptionClasses

\* put's handler: `except Exception`.
PutCatches(e) == e \in ExceptionClasses

\* DiskCache.get(image_id)
Get(k) ==
    /\ IF files[k] = "absent"
       THEN cacheCall' = [kind |-> "get", key |-> k, entry |-> files[k],
                          result |-> "None", raised |-> "no"]
       ELSE LET r == ReadEntry(files[k])
            IN cacheCall' =
                 [kind |-> "get", key |-> k, entry |-> files[k],
                  result |-> IF r.raises = "no" THEN "report" ELSE "None",
                  raised |-> IF r.raises = "no" \/ GetCatches(r.raises)
                             THEN "no" ELSE r.raises]
    /\ UNCHANGED files

\* DiskCache.put(image_id, report); write_text either succeeds, or raises
\* OSError before the file is touched or after it was truncated.
Put(k, write) ==
    /\ files' = [files EXCEPT ![k] =
                    CASE write = "ok"            -> "valid"
                      [] write = "fails_early"   -> @
                      [] write = "fails_midway"  -> "partial"]
    /\ cacheCall' = [kind |-> "put", key |-> k, entry |-> files[k],
                     result |-> "None",
                     raised |-> IF write = "ok" \/ PutCatches("OSError")
                                THEN "no" ELSE "OSError"]

\* DiskCache.clear(): unlink every *.json
Clear ==
    /\ files' = [k \in DOMAIN files |-> "absent"]
    /\ cacheCall' = [kind |-> "clear", key |-> "*", entry |-> "absent",
                     result |-> "count", raised |-> "no"]

(***************************************************************************)
(* merge_reports                                                           *)
(*                                                                         *)
(* Numbers (ReferenceRange.low/high, Observation.value) are decimals with  *)
(* five places, held as integers in units of 0.00001.  An optional float   *)
(* is <<>> (None) or <<x>>.  Strings that the code concatenates are        *)
(* sequences of characters, so that a concatenation can be compared with   *)
(* another one character by character.  A report's panels are flattened:   *)
(* `results` is the concatenation of panel.results in panel order, which   *)
(* is the order the loops of merge_reports visit them in.                  *)
(***************************************************************************)
NoBound == <<>>
Bound(x) == <<x>>

Abs(x) == IF x < 0 THEN -x ELSE x

FormatExact(x) == <<[sign |-> IF x < 0 THEN "-" ELSE "", digits |-> Abs(x) * 10]>>

\* f"{x:.4f}": the sign, and the magnitude rounded to four places (the inputs
\* hold no magnitude that lies exactly halfway).  One token of the string.
Format4(x) ==
    <<[sign |-> IF x < 0 THEN "-" ELSE "", digits |-> (Abs(x) + 5) \div 10]>>

\* A literal piece of an f-string, character by character.
Sep == <<"|">>
NoneText == <<"N", "o", "n", "e">>

Chars(str) == [i \in DOMAIN str |-> [ch |-> str[i]]]

\* _range_signature(ref)
RangeSignature(ref) ==
    LET lo == IF ref.low # NoBound THEN Format4(ref.low[1]) ELSE Chars(NoneText)
        hi == IF ref.high # NoBound THEN Format4(ref.high[1]) ELSE Chars(NoneText)
    IN lo \o Chars(Sep) \o hi

\* _obs_key(obs): date.isoformat() and str(value) both give different text
\* for different inputs (the values are finite and hold no negative zero).
ObsKey(obs) == <<obs.date, obs.value>>

\* _merge_key(analyte)
MergeKey(analyte) ==
    Chars(analyte.analyte_key) \o Chars(Sep) \o Chars(analyte.unit_canonical)
        \o Chars(Sep) \o RangeSignature(analyte.ref_range)

\* The position of key k in a dict held as a sequence of entries, 0 if absent.
Find(dict, k) ==
    LET hits == {i \in DOMAIN dict : dict[i].key = k}
    IN IF hits = {} THEN 0 ELSE Min(hits)

DictAppend(dict, k, v) == Append(dict, [key |-> k, val |-> v])

DictSetKeepFirst(dict, k, v) ==
    IF \E i \in DOMAIN dict : dict[i].key = k THEN dict
    ELSE Append(dict, [key |-> k, val |-> v])

\* dict[k] = v: a new key goes last, a known key keeps its place.
DictSet(dict, k, v) ==
    LET at == Find(dict, k)
    IN IF at = 0 THEN Append(dict, [key |-> k, val |-> v])
       ELSE [dict EXCEPT ![at] = [key |-> k, val |-> v]]

\* The `for obs in analyte.observations` loop: tag, then obs_dict[ok] = obs.
RECURSIVE InsertObservations(_, _, _)
InsertObservations(obs_dict, observations, image_id) ==
    IF observations = <<>> THEN obs_dict
    ELSE LET obs == [Head(observations) EXCEPT !.source_image_id = image_id]
         IN InsertObservations(DictSet(obs_dict, ObsKey(obs), obs),
                               Tail(observations), image_id)

\* The body of `for analyte in panel.results`.
MergeAnalyte(acc, analyte, image_id) ==
    LET key == MergeKey(analyte)
        template == [analyte EXCEPT !.observations = <<>>]
        acc1 == IF Find(acc, key) = 0
                THEN DictSet(acc, key, [template |-> template, obs_dict |-> <<>>])
                ELSE acc
        at == Find(acc1, key)
        entry == acc1[at].val
    IN [acc1 EXCEPT ![at].val.obs_dict =
            InsertObservations(entry.obs_dict, analyte.observations, image_id)]

RECURSIVE MergeResults(_, _, _)
MergeResults(acc, results, image_id) ==
    IF results = <<>> THEN acc
    ELSE MergeResults(MergeAnalyte(acc, Head(results), image_id),
                      Tail(results), image_id)

\* The `for report in reports` loop.
RECURSIVE Accumulate(_, _)
Accumulate(acc, reps) ==
    IF reps = <<>> THEN acc
    ELSE Accumulate(MergeResults(acc, Head(reps).results, Head(reps).source_image_id),
                    Tail(reps))

\* Insert x into a date-sorted sequence after every element that is not later.
RECURSIVE InsertByDate(_, _)
InsertByDate(sorted, x) ==
    IF sorted = <<>> THEN <<x>>
    ELSE IF Head(sorted).date <= x.date
         THEN <<Head(sorted)>> \o InsertByDate(Tail(sorted), x)
         ELSE <<x>> \o sorted

KeepOrder(seq) == seq

\* sorted(obs_dict.values(), key=lambda o: o.date): a stable sort.
RECURSIVE SortedByDate(_)
SortedByDate(seq) ==
    IF seq = <<>> THEN <<>>
    ELSE InsertByDate(SortedByDate(SubSeq(seq, 1, Len(seq) - 1)), seq[Len(seq)])

Values(dict) == [i \in DOMAIN dict |-> dict[i].val]

\* merge_reports(reports): the accumulation, then the assembly of the result.
MergeReports(reps) ==
    LET acc == Accumulate(<<>>, reps)
    IN [i \in DOMAIN acc |->
          [acc[i].val.template EXCEPT
              !.observations = SortedByDate(Values(acc[i].val.obs_dict))]]

\* The observations of the input reports after the call: merge_reports sets
\* obs.source_image_id on the caller's objects.
TagObservations(reps) ==
    [r \in DOMAIN reps |->
        [reps[r] EXCEPT !.results =
            [a \in DOMAIN reps[r].results |->
                [reps[r].results[a] EXCEPT !.observations =
                    [o \in DOMAIN reps[r].results[a].observations |->
                        [reps[r].results[a].observations[o] EXCEPT
                            !.source_image_id = reps[r].source_image_id]]]]]]

\* ---- the input of merge_reports, as the extraction produces it ----
EmptyReport(id) == [source_image_id |-> id, results |-> <<>>]

Analyte(key, unit, lo, hi) ==
    [analyte_key |-> key, unit_canonical |-> unit,
     ref_range |-> [low |-> lo, high |-> hi], observations |-> <<>>]

\* Observation(date, value): source_image_id defaults to "".
Observation(d, v) == [date |-> d, value |-> v, source_image_id |-> ""]

TotalAnalytes(reps) ==
    IF reps = <<>> THEN 0
    ELSE LET n[i \in 0..Len(reps)] ==
                IF i = 0 THEN 0 ELSE n[i - 1] + Len(reps[i].results)
         IN n[Len(reps)]

TotalObservations(reps) ==
    IF reps = <<>> THEN 0
    ELSE LET perReport(r) ==
                LET m[j \in 0..Len(r.results)] ==
                       IF j = 0 THEN 0 ELSE m[j - 1] + Len(r.results[j].observations)
                IN m[Len(r.results)]
             n[i \in 0..Len(reps)] ==
                IF i = 0 THEN 0 ELSE n[i - 1] + perReport(reps[i])
         IN n[Len(reps)]

\* A further image is extracted into a report.
AddReport(id) ==
    /\ mergePhase = "building"
    /\ Len(reports) < MaxReports
    /\ reports' = Append(reports, EmptyReport(id))
    /\ UNCHANGED <<merged, mergePhase>>

\* The report being extracted gets a further analyte row.
AddAnalyte(a) ==
    /\ mergePhase = "building"
    /\ reports # <<>>
    /\ TotalAnalytes(reports) < MaxAnalytes
    /\ reports' = [reports EXCEPT ![Len(reports)].results = Append(@, a)]
    /\ UNCHANGED <<merged, mergePhase>>

\* The analyte row being extracted gets a further dated value.
AddObservation(d, v) ==
    /\ mergePhase = "building"
    /\ reports # <<>>
    /\ reports[Len(reports)].results # <<>>
    /\ TotalObservations(reports) < MaxObservations
    /\ LET r == Len(reports)
           a == Len(reports[r].results)
       IN reports' = [reports EXCEPT ![r].results[a].observations =
                         Append(@, Observation(d, v))]
    /\ UNCHANGED <<merged, mergePhase>>

\* merged_timeline = merge_reports(reports)
Merge ==
    /\ mergePhase = "building"
    /\ merged' = MergeReports(reports)
    /\ reports' = TagObservations(reports)
    /\ mergePhase' = "merged"

(***************************************************************************)
(* parse_reference_range (its results) and compute_flag                    *)
(*                                                                         *)
(* Multipliers are held in hundredths, so that                             *)
(* value > high + span * multiplier is 100*value > 100*high + span*pct.    *)
(***************************************************************************)
DEFAULT_CRITICAL_MULTIPLIER == 50

\* CRITICAL_MULTIPLIER_OVERRIDES
OverrideKeys ==
    {"potassium", "sodium", "glucose", "calcium", "magnesium", "phosphate",
     "troponin_i", "troponin_t", "inr"}

Override(key) ==
    CASE key = "potassium"  -> 20
      [] key = "sodium"     -> 10
      [] key = "glucose"    -> 50
      [] key = "calcium"    -> 25
      [] key = "magnesium"  -> 30
      [] key = "phosphate"  -> 30
      [] key = "troponin_i" -> 0
      [] key = "troponin_t" -> 0
      [] key = "inr"        -> 50

\* (variant) the override table is never consulted
MultiplierDefaultOnly(key) == DEFAULT_CRITICAL_MULTIPLIER

\* CRITICAL_MULTIPLIER_OVERRIDES.get(analyte_key, DEFAULT_CRITICAL_MULTIPLIER)
Multiplier(key) ==
    IF key \in OverrideKeys THEN Override(key) ELSE DEFAULT_CRITICAL_MULTIPLIER

\* (variant) a range counts as bounded only when both bounds are present
IsBoundedBoth(ref) == ref.low # NoBound /\ ref.high # NoBound

\* ReferenceRange.is_bounded
IsBounded(ref) == ref.low # NoBound \/ ref.high # NoBound

\* (variant) the optional bound is ignored
OrElseIgnore(opt, other) == other

\* `x or y` on an optional float: None and 0.0 are both falsy.
OrElse(opt, other) == IF opt = NoBound \/ opt[1] = 0 THEN other ELSE opt[1]

\* compute_flag(value, ref, analyte_key)
compute_flag(value, ref, key) ==
    IF ~IsBounded(ref) THEN "normal"
    ELSE LET pct == Multiplier(key)
         IN IF ref.high # NoBound /\ value > ref.high[1]
            THEN LET high == ref.high[1]
                     span == high - OrElse(ref.low, 0)
                     critical ==
                        IF span > 0 THEN 100 * value > 100 * high + span * pct
                        ELSE value > high
                 IN IF critical THEN "critical_high" ELSE "high"
            ELSE IF ref.low # NoBound /\ value < ref.low[1]
            THEN LET low == ref.low[1]
                     span == OrElse(ref.high, low) - low
                     critical ==
                        IF span > 0 THEN 100 * value < 100 * low - span * pct
                        ELSE value < low
                 IN IF critical THEN "critical_low" ELSE "low"
            ELSE "normal"

\* parse_reference_range, by the rule that matched: the numbers of a two-sided
\* text become low and high in the order they stand in the text.
RangeFromTwoSided(first, second) == [low |-> Bound(first), high |-> Bound(second)]
RangeFromUpperOnly(n) == [low |-> NoBound, high |-> Bound(n)]
RangeFromLowerOnly(n) == [low |-> Bound(n), high |-> NoBound]
RangeUnbounded == [low |-> NoBound, high |-> NoBound]

\* The numbers that range texts and observations hold (units of 0.00001)
RangeNumbers == {-200000, 0, 350000, 510000}
\* The two numbers of a two-sided range text, in the order of the text
TwoSidedTexts == (RangeNumbers \X RangeNumbers) \cup {<<13600000, 14500000>>}
FlagKeys == OverrideKeys \cup {"creatinine"}
Pcts == {Multiplier(k) : k \in FlagKeys}
Eps == {-1, 0, 1}
\* Observation values: the bounds, the critical thresholds of every range
\* under every multiplier, and their neighbours one unit away.
OrderedPairs == {pr \in TwoSidedTexts : pr[1] < pr[2]}
FlagValues ==
    {-400000, 320000, 340000, 520000, 700000, 14800000}
    \cup {b + e : b \in RangeNumbers, e \in Eps}
    \cup {pr[2] + ((pr[2] - pr[1]) * p) \div 100 + e :
             pr \in OrderedPairs, p \in Pcts, e \in Eps}
    \cup {pr[1] - ((pr[2] - pr[1]) * p) \div 100 + e :
             pr \in OrderedPairs, p \in Pcts, e \in Eps}
    \cup {h + (h * p) \div 100 + e :
             h \in {n \in RangeNumbers : n > 0}, p \in Pcts, e \in Eps}

NoFlag == "None"

\* _normalize_analyte step 4: ref_range = parse_reference_range(raw_range_text)
ParseTwoSided(a, b) ==
    /\ observation.flag_computed = NoFlag
    /\ ~IsBounded(ref_range)
    /\ ref_range' = RangeFromTwoSided(a, b)
    /\ UNCHANGED <<analyte_key, observation>>

ParseUpperOnly(n) ==
    /\ observation.flag_computed = NoFlag
    /\ ~IsBounded(ref_range)
    /\ ref_range' = RangeFromUpperOnly(n)
    /\ UNCHANGED <<analyte_key, observation>>

ParseLowerOnly(n) ==
    /\ observation.flag_computed = NoFlag
    /\ ~IsBounded(ref_range)
    /\ ref_range' = RangeFromLowerOnly(n)
    /\ UNCHANGED <<analyte_key, observation>>

\* _normalize_analyte step 5: obs.flag_computed = compute_flag(...)
RecomputeFlag ==
    /\ observation.flag_computed = NoFlag
    /\ observation' = [observation EXCEPT
          !.flag_computed = compute_flag(observation.value, ref_range, analyte_key)]
    /\ UNCHANGED <<ref_range, analyte_key>>

FlagIdle ==
    /\ ref_range = RangeUnbounded
    /\ analyte_key = ""
    /\ observation = [value |-> 0, flag_computed |-> NoFlag]

(***************************************************************************)
(* postprocess_report                                                      *)
(*                                                                         *)
(* Strings are sequences of one-character strings.  A raw_range_text is    *)
(* held as the rule of parse_reference_range it matches together with its  *)
(* numbers; ReferenceRange.raw_text, which no computation reads, is left   *)
(* out.                                                                    *)
(***************************************************************************)
LowerLetters ==
    <<"a", "b", "c", "d", "e", "f", "g", "h", "i", "j", "k", "l", "m",
      "n", "o", "p", "q", "r", "s", "t", "u", "v", "w", "x", "y", "z">>
UpperLetters ==
    <<"A", "B", "C", "D", "E", "F", "G", "H", "I", "J", "K", "L", "M",
      "N", "O", "P", "Q", "R", "S", "T", "U", "V", "W", "X", "Y", "Z">>
DigitChars == {"0", "1", "2", "3", "4", "5", "6", "7", "8", "9"}

IsLower(c) == \E i \in DOMAIN LowerLetters : LowerLetters[i] = c
IsUpper(c) == \E i \in DOMAIN UpperLetters : UpperLetters[i] = c
IsLetter(c) == IsLower(c) \/ IsUpper(c)
\* \s and \w of the regular expressions
IsSpace(c) == c = " " \/ c = "\t"
IsWord(c) == IsLetter(c) \/ c \in DigitChars \/ c = "_"

\* str.lower() and str.upper(), one character
ToLower(c) ==
    IF IsUpper(c)
    THEN LowerLetters[CHOOSE i \in DOMAIN UpperLetters : UpperLetters[i] = c]
    ELSE c
ToUpper(c) ==
    IF IsLower(c)
    THEN UpperLetters[CHOOSE i \in DOMAIN LowerLetters : LowerLetters[i] = c]
    ELSE c
Lower(s) == [i \in DOMAIN s |-> ToLower(s[i])]

\* str.lstrip(chars) / str.rstrip(chars)
LStrip(s, chars) ==
    LET kept == {i \in DOMAIN s : s[i] \notin chars}
    IN IF kept = {} THEN <<>> ELSE SubSeq(s, Min(kept), Len(s))
RStrip(s, chars) ==
    LET kept == {i \in DOMAIN s : s[i] \notin chars}
    IN IF kept = {} THEN <<>>
       ELSE SubSeq(s, 1, CHOOSE i \in kept : \A j \in kept : j <= i)
\* str.strip()
Spaces == {" ", "\t"}
Strip(s) == RStrip(LStrip(s, Spaces), Spaces)

\* re.sub(r"\s+", "_", s): every run of whitespace becomes one underscore.
RECURSIVE SnakeCase(_)
SnakeCase(s) ==
    IF s = <<>> THEN <<>>
    ELSE IF IsSpace(Head(s)) THEN <<"_">> \o SnakeCase(LStrip(s, Spaces))
         ELSE <<Head(s)>> \o SnakeCase(Tail(s))

\* re.sub(r"\s+", "", s)
NoSpaces(s) == SelectSeq(s, LAMBDA c : ~IsSpace(c))

\* The entries of _ANALYTE_ALIASES for sodium and potassium
ANALYTE_ALIASES ==
    { <<<<"n", "a">>, <<"s", "o", "d", "i", "u", "m">>>>,
      <<<<"n", "a", "+">>, <<"s", "o", "d", "i", "u", "m">>>>,
      <<<<"s", "o", "d">>, <<"s", "o", "d", "i", "u", "m">>>>,
      <<<<"s", "o", "d", ".">>, <<"s", "o", "d", "i", "u", "m">>>>,
      <<<<"s", "o", "d", "i", "u", "m">>, <<"s", "o", "d", "i", "u", "m">>>>,
      <<<<"k">>, <<"p", "o", "t", "a", "s", "s", "i", "u", "m">>>>,
      <<<<"k", "+">>, <<"p", "o", "t", "a", "s", "s", "i", "u", "m">>>>,
      <<<<"p", "o", "t">>, <<"p", "o", "t", "a", "s", "s", "i", "u", "m">>>>,
      <<<<"p", "o", "t", "a", "s", "s", "i", "u", "m">>,
        <<"p", "o", "t", "a", "s", "s", "i", "u", "m">>>> }

\* The entries of _UNIT_ALIASES for mmol/L, mEq/L and mg/dL
UNIT_ALIASES ==
    { <<<<"m", "m", "o", "l", "/", "l">>, <<"m", "m", "o", "l", "/", "L">>>>,
      <<<<"m", "e", "q", "/", "l">>, <<"m", "E", "q", "/", "L">>>>,
      <<<<"m", "g", "/", "d", "l">>, <<"m", "g", "/", "d", "L">>>> }

\* k in table, and table[k]
InTable(table, k) == \E e \in table : e[1] = k
Lookup(table, k) == (CHOOSE e \in table : e[1] = k)[2]

\* _normalize_analyte_key(raw_name)
KeptInName(c) == IsWord(c) \/ IsSpace(c) \/ c \in {".", "+", "-"}

NormalizeAnalyteKey(raw_name) ==
    LET cleaned == Strip(Lower(SelectSeq(Strip(raw_name), KeptInName)))
        stripped == RStrip(cleaned, {".", " "})
    IN IF InTable(ANALYTE_ALIASES, cleaned) THEN Lookup(ANALYTE_ALIASES, cleaned)
       ELSE IF InTable(ANALYTE_ALIASES, stripped)
            THEN Lookup(ANALYTE_ALIASES, stripped)
            ELSE SnakeCase(cleaned)

\* _make_display_name(analyte_key): replace("_", " ").title()
MakeDisplayName(key) ==
    LET spaced == [i \in DOMAIN key |-> IF key[i] = "_" THEN " " ELSE key[i]]
    IN [i \in DOMAIN spaced |->
           IF i = 1 \/ ~IsLetter(spaced[i - 1]) THEN ToUpper(spaced[i])
           ELSE ToLower(spaced[i])]

\* normalize_unit(raw)
NormalizeUnit(raw) ==
    LET cleaned == Lower(NoSpaces(Strip(raw)))
    IN IF InTable(UNIT_ALIASES, cleaned) THEN Lookup(UNIT_ALIASES, cleaned)
       ELSE Strip(raw)

\* parse_reference_range(raw), raw being held as the rule it matches
NoRangeText == [form |-> "empty", first |-> 0, second |-> 0]
TwoSidedText(a, b) == [form |-> "two_sided", first |-> a, second |-> b]
UpperOnlyText(n) == [form |-> "upper_only", first |-> n, second |-> 0]
LowerOnlyText(n) == [form |-> "lower_only", first |-> n, second |-> 0]
QualitativeText == [form |-> "qualitative", first |-> 0, second |-> 0]

ParseReferenceRange(raw) ==
    CASE raw.form = "two_sided" -> RangeFromTwoSided(raw.first, raw.second)
      [] raw.form = "upper_only" -> RangeFromUpperOnly(raw.first)
      [] raw.form = "lower_only" -> RangeFromLowerOnly(raw.first)
      [] OTHER -> RangeUnbounded

\* The key of CRITICAL_MULTIPLIER_OVERRIDES that a character sequence spells,
\* "" (no entry) when it spells none.
Spell(word) ==
    CASE word = "potassium"  -> <<"p", "o", "t", "a", "s", "s", "i", "u", "m">>
      [] word = "sodium"     -> <<"s", "o", "d", "i", "u", "m">>
      [] word = "glucose"    -> <<"g", "l", "u", "c", "o", "s", "e">>
      [] word = "calcium"    -> <<"c", "a", "l", "c", "i", "u", "m">>
      [] word = "magnesium"  -> <<"m", "a", "g", "n", "e", "s", "i", "u", "m">>
      [] word = "phosphate"  -> <<"p", "h", "o", "s", "p", "h", "a", "t", "e">>
      [] word = "troponin_i" -> <<"t", "r", "o", "p", "o", "n", "i", "n", "_", "i">>
      [] word = "troponin_t" -> <<"t", "r", "o", "p", "o", "n", "i", "n", "_", "t">>
      [] word = "inr"        -> <<"i", "n", "r">>
KeyName(chars) ==
    IF \E k \in OverrideKeys : Spell(k) = chars
    THEN CHOOSE k \in OverrideKeys : Spell(k) = chars
    ELSE ""

\* (variant) step 1 rewrites the key whatever upstream supplied
KeyStepAlways(analyte) ==
    [analyte EXCEPT !.analyte_key = NormalizeAnalyteKey(analyte.raw_name)]

\* _normalize_analyte step 1
KeyStep(analyte) ==
    IF analyte.analyte_key = <<>> \/ analyte.analyte_key = analyte.raw_name
    THEN [analyte EXCEPT !.analyte_key = NormalizeAnalyteKey(analyte.raw_name)]
    ELSE analyte

\* _normalize_analyte step 2
DisplayNameStep(analyte) ==
    IF analyte.display_name = <<>>
    THEN [analyte EXCEPT !.display_name = MakeDisplayName(analyte.analyte_key)]
    ELSE analyte

\* _normalize_analyte step 3
UnitStep(analyte) ==
    IF analyte.unit # <<>> /\ analyte.unit_canonical = <<>>
    THEN [analyte EXCEPT !.unit_canonical = NormalizeUnit(analyte.unit)]
    ELSE analyte

\* (variant) the range text is never parsed
RangeStepSkip(analyte) == analyte

\* _normalize_analyte step 4
RangeStep(analyte) ==
    IF analyte.raw_range_text.form # "empty" /\ ~IsBounded(analyte.ref_range)
    THEN [analyte EXCEPT !.ref_range = ParseReferenceRange(analyte.raw_range_text)]
    ELSE analyte

\* (variant) an extracted flag is kept, the flag is computed only when the
\* report showed none
FlagStepKeepExtracted(analyte) ==
    [analyte EXCEPT !.observations =
        [o \in DOMAIN analyte.observations |->
            [analyte.observations[o] EXCEPT !.flag_computed =
                IF analyte.observations[o].flag_extracted # "None"
                THEN analyte.observations[o].flag_extracted
                ELSE compute_flag(analyte.observations[o].value, analyte.ref_range,
                                  KeyName(analyte.analyte_key))]]]

\* _normalize_analyte step 5 (the discrepancy is logged, nothing else)
FlagStep(analyte) ==
    [analyte EXCEPT !.observations =
        [o \in DOMAIN analyte.observations |->
            [analyte.observations[o] EXCEPT !.flag_computed =
                compute_flag(analyte.observations[o].value, analyte.ref_range,
                             KeyName(analyte.analyte_key))]]]

\* _normalize_analyte(analyte)
NormalizeAnalyte(analyte) ==
    FlagStep(RangeStep(UnitStep(DisplayNameStep(KeyStep(analyte)))))

\* postprocess_report(report), panels flattened as for merge_reports
PostprocessReport(report) ==
    [report EXCEPT !.results =
        [a \in DOMAIN report.results |-> NormalizeAnalyte(report.results[a])]]

\* postprocess_reports(reports)
PostprocessReports(reps) == [r \in DOMAIN reps |-> PostprocessReport(reps[r])]

(***************************************************************************)
(* parse_reference_range on the characters of the text                     *)
(*                                                                         *)
(* A regular expression is matched as re.search matches it: at the         *)
(* leftmost position where it can match, the greedy alternative first.     *)
(* Numbers are floats in units of 0.00001.                                 *)
(***************************************************************************)
\* The characters outside ASCII that the patterns name, by code point
EnDash == "U+2013"
EmDash == "U+2014"
LessOrEqualSign == "U+2264"
GreaterOrEqualSign == "U+2265"

Digits == <<"0", "1", "2", "3", "4", "5", "6", "7", "8", "9">>
DigitValue(c) == (CHOOSE i \in DOMAIN Digits : Digits[i] = c) - 1

RECURSIVE Decimal(_)
Decimal(digits) ==
    IF digits = <<>> THEN 0
    ELSE 10 * Decimal(SubSeq(digits, 1, Len(digits) - 1))
            + DigitValue(digits[Len(digits)])

RECURSIVE Pow10(_)
Pow10(n) == IF n = 0 THEN 1 ELSE 10 * Pow10(n - 1)

\* float(token) of a token matched by _NUM
FloatOf(token) ==
    LET body == IF token[1] \in {"+", "-"} THEN Tail(token) ELSE token
        dot == {i \in DOMAIN body : body[i] = "."}
        whole == IF dot = {} THEN body ELSE SubSeq(body, 1, Min(dot) - 1)
        frac == IF dot = {} THEN <<>> ELSE SubSeq(body, Min(dot) + 1, Len(body))
        magnitude == Decimal(whole) * 100000 + Decimal(frac) * Pow10(5 - Len(frac))
    IN IF token[1] = "-" THEN -magnitude ELSE magnitude

\* Where a greedy run of characters of a class, begun at p, ends: the first
\* position from p on that holds another character.
RunEnd(s, p, chars) ==
    LET stop == {i \in p..Len(s) : s[i] \notin chars}
    IN IF stop = {} THEN Len(s) + 1 ELSE Min(stop)

\* _NUM = [+-]?\d+(?:\.\d+)? at position p: the positions just after each way
\* it can match, the one tried first standing first; <<>> if it cannot.
NumEnds(s, p) ==
    LET start == IF p <= Len(s) /\ s[p] \in {"+", "-"} THEN p + 1 ELSE p
        int_end == RunEnd(s, start, DigitChars)
        frac_end == IF int_end <= Len(s) /\ s[int_end] = "."
                    THEN RunEnd(s, int_end + 1, DigitChars) ELSE 0
    IN IF int_end = start THEN <<>>
       ELSE IF frac_end > int_end + 1 THEN <<frac_end, int_end>>
       ELSE <<int_end>>

\* The separator (hyphen, en-dash, em-dash or "to") at position q: the position just after it, 0 if it is not there
SeparatorEnd(s, q) ==
    IF q <= Len(s) /\ s[q] \in {"-", EnDash, EmDash} THEN q + 1
    ELSE IF q + 1 <= Len(s) /\ s[q] = "t" /\ s[q + 1] = "o" THEN q + 2
    ELSE 0

\* _RANGE_RE anchored at p: <<lo, hi>> as matched, <<>> if there is no match
RangeMatchAt(s, p) ==
    LET lo_ends == NumEnds(s, p)
        Try(e) ==
            LET sep_end == SeparatorEnd(s, RunEnd(s, e, Spaces))
                hi_start == RunEnd(s, sep_end, Spaces)
                hi_ends == NumEnds(s, hi_start)
            IN IF sep_end = 0 \/ hi_ends = <<>> THEN <<>>
               ELSE <<SubSeq(s, p, e - 1), SubSeq(s, hi_start, hi_ends[1] - 1)>>
        good == {k \in DOMAIN lo_ends : Try(lo_ends[k]) # <<>>}
    IN IF good = {} THEN <<>> ELSE Try(lo_ends[Min(good)])

\* _RANGE_RE.search(text)
RangeSearch(s) ==
    LET hits == {p \in DOMAIN s : RangeMatchAt(s, p) # <<>>}
    IN IF hits = {} THEN <<>> ELSE RangeMatchAt(s, Min(hits))

\* _UPPER_ONLY_RE / _LOWER_ONLY_RE anchored at p, signs being the less-than or the greater-than signs:
\* <<number>> as matched, <<>> if there is no match
BoundMatchAt(s, p, signs) ==
    IF s[p] \notin signs THEN <<>>
    ELSE LET eq == RunEnd(s, p + 1, Spaces)
             after_eq == IF eq <= Len(s) /\ s[eq] = "=" THEN eq + 1 ELSE eq
             num_start == RunEnd(s, after_eq, Spaces)
             num_ends == NumEnds(s, num_start)
         IN IF num_ends = <<>> THEN <<>>
            ELSE <<SubSeq(s, num_start, num_ends[1] - 1)>>

\* _UPPER_ONLY_RE.search(text) / _LOWER_ONLY_RE.search(text)
BoundSearch(s, signs) ==
    LET hits == {p \in DOMAIN s : BoundMatchAt(s, p, signs) # <<>>}
    IN IF hits = {} THEN <<>> ELSE BoundMatchAt(s, Min(hits), signs)

UpperSigns == {"<", LessOrEqualSign}
LowerSigns == {">", GreaterOrEqualSign}

\* _QUALITATIVE_RE, which is anchored at both ends and ignores case
QualitativeWords ==
    { <<"n", "e", "g", "a", "t", "i", "v", "e">>,
      <<"n", "o", "n", "r", "e", "a", "c", "t", "i", "v", "e">>,
      <<"n", "o", "n", "-", "r", "e", "a", "c", "t", "i", "v", "e">>,
      <<"n", "o", "n", " ", "r", "e", "a", "c", "t", "i", "v", "e">>,
      <<"n", "o", "t", " ", "d", "e", "t", "e", "c", "t", "e", "d">>,
      <<"a", "b", "s", "e", "n", "t">>,
      <<"n", "o", "r", "m", "a", "l">> }
IsQualitative(text) == Lower(text) \in QualitativeWords

\* The segment the patterns are tried on: with a semicolon in the text the
\* part before the first one, and of that, with a colon in it, the part
\* after the first colon.
Before(s, c) == SubSeq(s, 1, Min({i \in DOMAIN s : s[i] = c}) - 1)
After(s, c) == SubSeq(s, Min({i \in DOMAIN s : s[i] = c}) + 1, Len(s))
Has(s, c) == \E i \in DOMAIN s : s[i] = c
Segment(text) ==
    IF Has(text, ";")
    THEN LET first == Strip(Before(text, ";"))
         IN IF Has(first, ":") THEN Strip(After(first, ":")) ELSE first
    ELSE text

\* ReferenceRange(low=..., high=..., raw_text=raw)
ParsedRange(range, raw) ==
    [low |-> range.low, high |-> range.high, raw_text |-> raw]

\* (variant) the one-sided patterns are tried before the two-sided one
ParseOneSidedFirst(raw) ==
    LET text == Strip(raw)
    IN IF text = <<>> \/ IsQualitative(text) THEN ParsedRange(RangeUnbounded, raw)
       ELSE LET segment == Segment(text)
                both == RangeSearch(segment)
                upper == BoundSearch(segment, UpperSigns)
                lower == BoundSearch(segment, LowerSigns)
            IN IF upper # <<>>
               THEN ParsedRange(RangeFromUpperOnly(FloatOf(upper[1])), raw)
               ELSE IF lower # <<>>
               THEN ParsedRange(RangeFromLowerOnly(FloatOf(lower[1])), raw)
               ELSE IF both # <<>>
               THEN ParsedRange(RangeFromTwoSided(FloatOf(both[1]), FloatOf(both[2])), raw)
               ELSE ParsedRange(RangeUnbounded, raw)

\* parse_reference_range(raw)
parse_reference_range(raw) ==
    LET text == Strip(raw)
    IN IF text = <<>> THEN ParsedRange(RangeUnbounded, raw)
       ELSE IF IsQualitative(text) THEN ParsedRange(RangeUnbounded, raw)
       ELSE LET segment == Segment(text)
                both == RangeSearch(segment)
                upper == BoundSearch(segment, UpperSigns)
                lower == BoundSearch(segment, LowerSigns)
            IN IF both # <<>>
               THEN ParsedRange(RangeFromTwoSided(FloatOf(both[1]), FloatOf(both[2])), raw)
               ELSE IF upper # <<>>
               THEN ParsedRange(RangeFromUpperOnly(FloatOf(upper[1])), raw)
               ELSE IF lower # <<>>
               THEN ParsedRange(RangeFromLowerOnly(FloatOf(lower[1])), raw)
               ELSE ParsedRange(RangeUnbounded, raw)

\* One call of parse_reference_range
ParseRange ==
    /\ parsed = None
    /\ parsed' = parse_reference_range(range_text)
    /\ UNCHANGED range_text

ParseIdle ==
    /\ range_text = <<>>
    /\ parsed = None

(***************************************************************************)
(* compute_trend and sort_trends_by_severity                               *)
(*                                                                         *)
(* pct_change and severity_score are held in hundredths (two decimals,     *)
(* the precision round(x, 2) leaves); rounding is to nearest, ties to even.*)
(***************************************************************************)
\* `a or b` on Flag | None
FlagOr(a, b) == IF a # NoFlag THEN a ELSE b

\* round(_pct_change(first, last), 2), by long division
PctChange(first, last) ==
    IF first = 0 THEN (IF last = 0 THEN 0 ELSE 10000)
    ELSE LET n == Abs(last - first)
             d == Abs(first)
             q1 == (n * 100) \div d
             r1 == (n * 100) % d
             q2 == (r1 * 100) \div d
             r2 == (r1 * 100) % d
             h == q1 * 100 + q2
             up == 2 * r2 > d \/ (2 * r2 = d /\ h % 2 = 1)
             mag == IF up THEN h + 1 ELSE h
         IN IF last < first THEN -mag ELSE mag

\* The consecutive differences obs[i].value - obs[i-1].value
Diffs(obs) == [i \in 1..(Len(obs) - 1) |-> obs[i + 1].value - obs[i].value]
Sign(d) == IF d > 0 THEN 1 ELSE IF d < 0 THEN -1 ELSE 0

\* _slope_sign(obs)
SlopeSign(obs) ==
    IF Len(obs) < 2 THEN 0
    ELSE LET diffs == Diffs(obs)
             positive == Cardinality({i \in DOMAIN diffs : diffs[i] > 0})
             negative == Cardinality({i \in DOMAIN diffs : diffs[i] < 0})
         IN IF positive > negative THEN 1
            ELSE IF negative > positive THEN -1 ELSE 0

\* The loop of _is_fluctuating after i differences: [reversals, prev_sign]
RECURSIVE ReversalScan(_, _)
ReversalScan(diffs, i) ==
    IF i = 0 THEN [reversals |-> 0, prev_sign |-> 0]
    ELSE LET before == ReversalScan(diffs, i - 1)
             sign == Sign(diffs[i])
         IN [reversals |->
                IF sign # 0 /\ before.prev_sign # 0 /\ sign # before.prev_sign
                THEN before.reversals + 1 ELSE before.reversals,
             prev_sign |-> IF sign # 0 THEN sign ELSE before.prev_sign]

\* (variant) a single reversal already counts as fluctuating
IsFluctuatingOnce(obs) ==
    IF Len(obs) < 3 THEN FALSE
    ELSE ReversalScan(Diffs(obs), Len(obs) - 1).reversals >= 1

\* _is_fluctuating(obs)
IsFluctuating(obs) ==
    IF Len(obs) < 3 THEN FALSE
    ELSE ReversalScan(Diffs(obs), Len(obs) - 1).reversals >= 2

\* (variant) a rising value always counts as worsening
DetermineDirectionRisingIsWorse(obs, latest_flag) ==
    IF Len(obs) < 2 THEN "stable"
    ELSE IF IsFluctuating(obs) THEN "fluctuating"
    ELSE IF latest_flag = "normal" THEN "stable"
    ELSE IF SlopeSign(obs) > 0 THEN "worsening"
    ELSE IF SlopeSign(obs) < 0 THEN "improving" ELSE "stable"

\* _determine_direction(obs, latest_flag)
DetermineDirection(obs, latest_flag) ==
    IF Len(obs) < 2 THEN "stable"
    ELSE IF IsFluctuating(obs) THEN "fluctuating"
    ELSE LET slope == SlopeSign(obs)
         IN IF latest_flag \in {"high", "critical_high"}
            THEN (IF slope < 0 THEN "improving"
                  ELSE IF slope > 0 THEN "worsening" ELSE "stable")
            ELSE IF latest_flag \in {"low", "critical_low"}
            THEN (IF slope > 0 THEN "improving"
                  ELSE IF slope < 0 THEN "worsening" ELSE "stable")
            ELSE "stable"

\* LabTrend(...): latest_value is an optional float, latest_flag a Flag | None
LabTrend(key, name, direction, pct, value, flag, obs) ==
    [analyte_key |-> key, display_name |-> name, direction |-> direction,
     pct_change |-> pct, latest_value |-> value, latest_flag |-> flag,
     severity_score |-> 0, observations |-> obs]

\* latest.flag_computed or latest.flag_extracted or Flag.normal
LatestFlag(latest) ==
    FlagOr(FlagOr(latest.flag_computed, latest.flag_extracted), "normal")

\* compute_trend(analyte)
ComputeTrend(analyte) ==
    LET obs == SortedByDate(analyte.observations)
    IN IF obs = <<>>
       THEN LabTrend(analyte.analyte_key, analyte.display_name, "stable", 0,
                     NoBound, NoFlag, <<>>)
       ELSE LET latest == obs[Len(obs)]
                earliest == obs[1]
                latest_flag == LatestFlag(latest)
            IN LabTrend(analyte.analyte_key, analyte.display_name,
                        DetermineDirection(obs, latest_flag),
                        PctChange(earliest.value, latest.value),
                        Bound(latest.value), latest_flag, obs)

\* _FLAG_WEIGHT.get(flag or Flag.normal, 0.0) and _DIRECTION_WEIGHT.get(...)
FlagWeight(flag) ==
    CASE flag \in {"critical_high", "critical_low"} -> 10000
      [] flag \in {"high", "low"} -> 5000
      [] OTHER -> 0
DirectionWeight(direction) ==
    CASE direction = "worsening" -> 3000
      [] direction = "fluctuating" -> 1500
      [] direction = "improving" -> -1000
      [] OTHER -> 0

\* compute_severity(trend): min(abs(pct_change), 200.0) * 0.1 is a tenth of
\* the capped change, rounded to two decimals with the rest of the sum.
compute_severity(trend) ==
    LET capped == IF Abs(trend.pct_change) < 20000 THEN Abs(trend.pct_change)
                  ELSE 20000
        q == capped \div 10
        r == capped % 10
        mag == IF r > 5 \/ (r = 5 /\ q % 2 = 1) THEN q + 1 ELSE q
    IN FlagWeight(trend.latest_flag) + DirectionWeight(trend.direction) + mag

\* Insert t into a sequence sorted by falling severity, after every element
\* whose score is not lower (sorted(..., reverse=True) is stable).
RECURSIVE InsertBySeverity(_, _)
InsertBySeverity(sorted, t) ==
    IF sorted = <<>> THEN <<t>>
    ELSE IF Head(sorted).severity_score >= t.severity_score
         THEN <<Head(sorted)>> \o InsertBySeverity(Tail(sorted), t)
         ELSE <<t>> \o sorted

RECURSIVE SortedBySeverity(_)
SortedBySeverity(seq) ==
    IF seq = <<>> THEN <<>>
    ELSE InsertBySeverity(SortedBySeverity(SubSeq(seq, 1, Len(seq) - 1)),
                          seq[Len(seq)])

\* (variant) the trends are sorted by the scores they arrive with
SortWithoutScoring(unsorted) == SortedBySeverity(unsorted)

\* sort_trends_by_severity(trends)
sort_trends_by_severity(unsorted) ==
    SortedBySeverity(
        [i \in DOMAIN unsorted |->
            [unsorted[i] EXCEPT !.severity_score = compute_severity(unsorted[i])]])

IsCritical(trend) == trend.latest_flag \in {"critical_high", "critical_low"}

\* (variant) the filter also lets the merely high or low trends through
CriticalFlagsAnyAbnormal(sorted) ==
    SelectSeq(sorted, LAMBDA t : t.latest_flag \notin {"normal", NoFlag})

\* orchestrator.py: critical = [t for t in trends if t.latest_flag in (...)]
CriticalFlags(sorted) == SelectSeq(sorted, IsCritical)

(***************************************************************************)
(* run_full_pipeline and run_extract_only                                  *)
(*                                                                         *)
(* Each coroutine runs without interruption between two awaits: loading    *)
(* and validating the images is one step; every extraction is a step of    *)
(* its own (run_concurrently, modelled in full above, hands back the       *)
(* results in input order once all are in); post-processing, merging,      *)
(* trending and the assembly of the report are one step; the summary is a  *)
(* last step.                                                              *)
(***************************************************************************)
\* What load_image finds at a path
PathStates == {"valid", "missing", "oversized", "unsupported"}

Error(class, reason) == [kind |-> "error", class |-> class, reason |-> reason]

\* load_image(path): the reason it raises ImageValidationError with, "" if
\* it returns a PreparedImage
LoadImageReason(path) ==
    CASE path = "missing" -> "File not found"
      [] path = "oversized" -> "Image is over the size limit"
      [] path = "unsupported" -> "Unsupported image type"
      [] OTHER -> ""

\* (variant) the files are not looked at before extraction
LoadImagesReasonCountOnly(paths, limit) ==
    IF Len(paths) > limit THEN "Too many images"
    ELSE IF paths = <<>> THEN "No images provided"
    ELSE ""

\* load_images(paths, max_images): the reason of the ImageValidationError it
\* raises, "" if every image loads.  The list comprehension stops at the
\* first path that fails.
LoadImagesReason(paths, limit) ==
    IF Len(paths) > limit THEN "Too many images"
    ELSE IF paths = <<>> THEN "No images provided"
    ELSE LET bad == {i \in DOMAIN paths : LoadImageReason(paths[i]) # ""}
         IN IF bad = {} THEN "" ELSE LoadImageReason(paths[Min(bad)])

\* run_full_pipeline / run_extract_only up to the first await
LoadImages ==
    /\ pc = "load"
    /\ LET reason == LoadImagesReason(image_paths, max_images)
       IN IF reason # ""
          THEN /\ pc' = "failed"
               /\ error' = Error("ImageValidationError", reason)
               /\ extracted' = extracted
          ELSE /\ pc' = "extract"
               /\ error' = error
               /\ extracted' = [i \in DOMAIN image_paths |-> None]
    /\ UNCHANGED <<summarize_calls, image_paths, max_images, mode,
                   enable_summary, extract_calls,
                   trends, critical_flags, summary, reports, merged, mergePhase>>

\* The faults an extraction call can end with: the three that with_retry
\* counts as retryable (timeout, rate limit, server error) and one it does not.
TransientFaults == {"timeout", "rate_limit", "server_error"}
Faults == TransientFaults \cup {"invalid_response"}

\* constants.py: the attempts with_retry allows
MAX_RETRIES == 3

\* How often extractor.extract was called for image i: _extract_all makes one
\* task per image, run_concurrently awaits each task once, and with_retry is
\* applied to neither.
Attempts(i) == IF i \in extract_calls THEN 1 ELSE 0

\* extractor.extract(images[i]) returns a report
ExtractImage(i, results) ==
    /\ pc = "extract"
    /\ i \in DOMAIN image_paths
    /\ i \notin extract_calls
    /\ extract_calls' = extract_calls \cup {i}
    /\ extracted' = [extracted EXCEPT
          ![i] = [kind |-> "report", source_image_id |-> ImageId(i),
                  results |-> results]]
    /\ UNCHANGED <<summarize_calls, image_paths, max_images, mode,
                   enable_summary, pc, error,
                   trends, critical_flags, summary, reports, merged, mergePhase>>

\* extractor.extract(images[i]) raises
ExtractFails(i, fault) ==
    /\ pc = "extract"
    /\ i \in DOMAIN image_paths
    /\ i \notin extract_calls
    /\ extract_calls' = extract_calls \cup {i}
    /\ extracted' = [extracted EXCEPT ![i] = Error("ExtractionError", fault)]
    /\ UNCHANGED <<summarize_calls, image_paths, max_images, mode,
                   enable_summary, pc, error,
                   trends, critical_flags, summary, reports, merged, mergePhase>>

AllExtracted == extract_calls = DOMAIN image_paths
FailedExtractions == {i \in DOMAIN extracted : extracted[i].kind = "error"}

\* _extract_all raises: the failure of the lowest index, once all are in
ExtractionRaises ==
    /\ pc = "extract"
    /\ AllExtracted
    /\ FailedExtractions # {}
    /\ pc' = "failed"
    /\ error' = extracted[Min(FailedExtractions)]
    /\ UNCHANGED <<summarize_calls, image_paths, max_images, mode,
                   enable_summary, extract_calls,
                   extracted, trends, critical_flags, summary, reports, merged,
                   mergePhase>>

\* (variant) the summary is asked for whatever enable_summary says
AnalyseThenSummary ==
    /\ pc = "extract"
    /\ mode = "full"
    /\ AllExtracted
    /\ FailedExtractions = {}
    /\ LET processed == PostprocessReports(extracted)
           merged_timeline == MergeReports(processed)
           sorted == sort_trends_by_severity(
                         [a \in DOMAIN merged_timeline |->
                             ComputeTrend(merged_timeline[a])])
       IN /\ reports' = TagObservations(processed)
          /\ merged' = merged_timeline
          /\ trends' = sorted
          /\ critical_flags' = CriticalFlags(sorted)
    /\ pc' = "summary"
    /\ UNCHANGED <<summarize_calls, image_paths, max_images, mode,
                   enable_summary, extract_calls,
                   extracted, error, summary, mergePhase>>

\* run_full_pipeline steps 3-6: the reports are post-processed in place,
\* merged (which tags their observations), trended, sorted and filtered.
Analyse ==
    /\ pc = "extract"
    /\ mode = "full"
    /\ AllExtracted
    /\ FailedExtractions = {}
    /\ LET processed == PostprocessReports(extracted)
           merged_timeline == MergeReports(processed)
           sorted == sort_trends_by_severity(
                         [a \in DOMAIN merged_timeline |->
                             ComputeTrend(merged_timeline[a])])
       IN /\ reports' = TagObservations(processed)
          /\ merged' = merged_timeline
          /\ trends' = sorted
          /\ critical_flags' = CriticalFlags(sorted)
    /\ pc' = IF enable_summary THEN "summary" ELSE "done"
    /\ UNCHANGED <<summarize_calls, image_paths, max_images, mode,
                   enable_summary, extract_calls,
                   extracted, error, summary, mergePhase>>

\* run_extract_only after extraction: return postprocess_reports(reports)
PostprocessOnly ==
    /\ pc = "extract"
    /\ mode = "extract_only"
    /\ AllExtracted
    /\ FailedExtractions = {}
    /\ reports' = PostprocessReports(extracted)
    /\ pc' = "done"
    /\ UNCHANGED <<summarize_calls, image_paths, max_images, mode,
                   enable_summary, extract_calls,
                   extracted, error, trends, critical_flags, summary, merged,
                   mergePhase>>

\* analysis.summary = await summ.summarize(analysis)
Summarize ==
    /\ pc = "summary"
    /\ summarize_calls' = summarize_calls + 1
    /\ summary' = "summary text"
    /\ pc' = "done"
    /\ UNCHANGED <<image_paths, max_images, mode, enable_summary, extract_calls,
                   extracted, error, trends, critical_flags, reports, merged,
                   mergePhase>>

\* summ.summarize(analysis) raises
SummarizeFails ==
    /\ pc = "summary"
    /\ summarize_calls' = summarize_calls + 1
    /\ pc' = "failed"
    /\ error' = Error("SummaryError", "summarize failed")
    /\ UNCHANGED <<image_paths, max_images, mode, enable_summary, extract_calls,
                   extracted, trends, critical_flags, summary, reports, merged,
                   mergePhase>>

\* orchestrator.py line 77 on its own: trends = [compute_trend(a) for a in ...]
ComputeTrends ==
    /\ pc = "trend"
    /\ trends' = [a \in DOMAIN merged |-> ComputeTrend(merged[a])]
    /\ pc' = "done"
    /\ UNCHANGED <<summarize_calls, image_paths, max_images, mode,
                   enable_summary, extract_calls,
                   extracted, error, critical_flags, summary, reports, merged,
                   mergePhase>>

\* orchestrator.py lines 77-86 on their own: the merged timeline is trended,
\* sorted by severity and filtered for the critical trends.
SortTrends ==
    /\ pc = "severity"
    /\ LET sorted == sort_trends_by_severity(
                         [a \in DOMAIN merged |-> ComputeTrend(merged[a])])
       IN /\ trends' = sorted
          /\ critical_flags' = CriticalFlags(sorted)
    /\ pc' = "sorted"
    /\ UNCHANGED <<summarize_calls, image_paths, max_images, mode,
                   enable_summary, extract_calls,
                   extracted, error, summary, reports, merged, mergePhase>>

PipeIdle ==
    /\ image_paths = <<>>
    /\ max_images = 0
    /\ mode = "idle"
    /\ enable_summary = FALSE
    /\ pc = "idle"
    /\ extract_calls = {}
    /\ extracted = <<>>
    /\ error = None
    /\ trends = <<>>
    /\ critical_flags = <<>>
    /\ summary = ""
    /\ summarize_calls = 0

ConcInit ==
    /\ images \in {[i \in 1..n |-> ImageId(i)] : n \in 1..MaxImages}
    /\ max_concurrent \in 0..MaxConcurrent
    /\ cache_enabled \in BOOLEAN
    /\ sem = max_concurrent
    /\ st = [i \in Tasks |-> "pending"]
    /\ taskResult = [i \in Tasks |-> None]
    /\ phase = "gather"
    /\ outcome = None
    /\ finishOrder = <<>>
    /\ lateStarts = {}

ConcIdle ==
    /\ images = <<>>
    /\ max_concurrent = 0
    /\ cache_enabled = FALSE
    /\ sem = 0
    /\ st = <<>>
    /\ taskResult = <<>>
    /\ phase = "idle"
    /\ outcome = None
    /\ finishOrder = <<>>
    /\ lateStarts = {}

CacheIdle ==
    /\ files = <<>>
    /\ cacheCall = None

CacheInit ==
    /\ files \in [CacheKeys -> FileStates]
    /\ cacheCall = None

MergeIdle ==
    /\ reports = <<>>
    /\ merged = <<>>
    /\ mergePhase = "idle"

Init ==
    /\ PipeIdle
    /\ ConcInit
    /\ files \in [{images[i] : i \in Tasks} -> {"absent", "valid"}]
    /\ cacheCall = None
    /\ MergeIdle
    /\ FlagIdle
    /\ ParseIdle

Next ==
    \/ \E i \in Tasks : StartTask(i) /\ UNCHANGED <<cacheVars, mergeVars, flagVars, pipeVars, parseVars>>
    \/ \E i \in Tasks : FinishTask(i) /\ UNCHANGED <<cacheVars, mergeVars, flagVars, pipeVars, parseVars>>
    \/ \E i \in Tasks : FailTask(i) /\ UNCHANGED <<cacheVars, mergeVars, flagVars, pipeVars, parseVars>>
    \/ Collect /\ UNCHANGED <<cacheVars, mergeVars, flagVars, pipeVars, parseVars>>

Spec == Init /\ [][Next]_vars

\* The same under the scheduling asyncio gives: a coroutine that can take a
\* slot is resumed, an external call in progress returns or raises, and the
\* awaiter of gather is resumed once gather is ready.
Fairness ==
    /\ \A i \in 1..MaxImages : WF_concVars(i \in Tasks /\ StartTask(i))
    /\ \A i \in 1..MaxImages : WF_concVars(i \in Tasks /\ (FinishTask(i) \/ FailTask(i)))
    /\ WF_concVars(Collect)

SpecFair == Init /\ [][Next]_vars /\ Fairness


\* DiskCache on its own, over every state its directory can be in.
InitCache ==
    /\ PipeIdle
    /\ ConcIdle
    /\ CacheInit
    /\ MergeIdle
    /\ FlagIdle
    /\ ParseIdle

NextCache ==
    \/ \E k \in CacheKeys : Get(k) /\ UNCHANGED <<concVars, mergeVars, flagVars, pipeVars, parseVars>>
    \/ \E k \in CacheKeys, w \in {"ok", "fails_early", "fails_midway"} :
          Put(k, w) /\ UNCHANGED <<concVars, mergeVars, flagVars, pipeVars, parseVars>>
    \/ Clear /\ UNCHANGED <<concVars, mergeVars, flagVars, pipeVars, parseVars>>

SpecCache == InitCache /\ [][NextCache]_vars

\* merge_reports over reports of one or two analytes.
SodiumMmol == Analyte(<<"N", "a">>, <<"m", "M">>, Bound(13600000), Bound(14500000))
PotassiumMmol == Analyte(<<"K">>, <<"m", "M">>, Bound(350000), Bound(510000))

MergeInputs == {SodiumMmol, PotassiumMmol}

InitMerge ==
    /\ PipeIdle
    /\ ConcIdle
    /\ CacheIdle
    /\ FlagIdle
    /\ ParseIdle
    /\ reports = <<>>
    /\ merged = <<>>
    /\ mergePhase = "building"

NextMerge ==
    \/ \E id \in SourceIds : AddReport(id) /\ UNCHANGED <<concVars, cacheVars, flagVars, pipeVars, parseVars>>
    \/ \E a \in MergeInputs : AddAnalyte(a) /\ UNCHANGED <<concVars, cacheVars, flagVars, pipeVars, parseVars>>
    \/ \E d \in Dates, v \in ObsValues :
          AddObservation(d, v) /\ UNCHANGED <<concVars, cacheVars, flagVars, pipeVars, parseVars>>
    \/ Merge /\ UNCHANGED <<concVars, cacheVars, flagVars, pipeVars, parseVars>>

SpecMerge == InitMerge /\ [][NextMerge]_vars


\* merge_reports over analytes that differ from one another in one part of
\* the merge key: the key, the unit, or a bound of the range.
PotassiumRenamed == Analyte(<<"N", "a">>, <<"m", "M">>, Bound(350000), Bound(510000))
PotassiumMicro == Analyte(<<"K">>, <<"u", "M">>, Bound(350000), Bound(510000))
PotassiumLowFar == Analyte(<<"K">>, <<"m", "M">>, Bound(350010), Bound(510000))
PotassiumLowNear == Analyte(<<"K">>, <<"m", "M">>, Bound(350001), Bound(510000))
PotassiumNoHigh == Analyte(<<"K">>, <<"m", "M">>, Bound(350000), NoBound)
PipeInUnit == Analyte(<<"K">>, <<"m", "|", "M">>, Bound(350000), Bound(510000))
PipeInKey == Analyte(<<"K", "|", "m">>, <<"M">>, Bound(350000), Bound(510000))

MergeKeyInputs ==
    {PotassiumMmol, PotassiumRenamed, PotassiumMicro, PotassiumLowFar,
     PotassiumLowNear, PotassiumNoHigh, PipeInUnit, PipeInKey}

NextMergeKey ==
    \/ AddReport("img1") /\ UNCHANGED <<concVars, cacheVars, flagVars, pipeVars, parseVars>>
    \/ \E a \in MergeKeyInputs : AddAnalyte(a) /\ UNCHANGED <<concVars, cacheVars, flagVars, pipeVars, parseVars>>
    \/ AddObservation(1, 400000) /\ UNCHANGED <<concVars, cacheVars, flagVars, pipeVars, parseVars>>
    \/ Merge /\ UNCHANGED <<concVars, cacheVars, flagVars, pipeVars, parseVars>>

SpecMergeKey == InitMerge /\ [][NextMergeKey]_vars

\* One analyte with one observation: its range text is parsed, then its flag
\* is computed.
InitFlag ==
    /\ PipeIdle
    /\ ParseIdle
    /\ ConcIdle
    /\ CacheIdle
    /\ MergeIdle
    /\ ref_range = RangeUnbounded
    /\ analyte_key \in FlagKeys
    /\ observation \in [value : FlagValues, flag_computed : {NoFlag}]

NextFlag ==
    \/ \E pr \in TwoSidedTexts :
          ParseTwoSided(pr[1], pr[2]) /\ UNCHANGED <<concVars, cacheVars, mergeVars, pipeVars, parseVars>>
    \/ \E n \in RangeNumbers :
          ParseUpperOnly(n) /\ UNCHANGED <<concVars, cacheVars, mergeVars, pipeVars, parseVars>>
    \/ \E n \in RangeNumbers :
          ParseLowerOnly(n) /\ UNCHANGED <<concVars, cacheVars, mergeVars, pipeVars, parseVars>>
    \/ RecomputeFlag /\ UNCHANGED <<concVars, cacheVars, mergeVars, pipeVars, parseVars>>

SpecFlag == InitFlag /\ [][NextFlag]_vars

\* ---- what the extractor returns: analytes as they stand on the reports ----
SodiumName == <<"S", "o", "d", "i", "u", "m">>
PotassiumName == <<"P", "o", "t", "a", "s", "s", "i", "u", "m">>
MmolPerL == <<"m", "m", "o", "l", "/", "L">>
NoText == <<>>

\* LabAnalyte(...) as extracted
UpstreamAnalyte(raw_name, key, display, unit, canonical, text, ref, obs) ==
    [raw_name |-> raw_name, raw_unit |-> unit, raw_range_text |-> text,
     analyte_key |-> key, display_name |-> display, unit |-> unit,
     unit_canonical |-> canonical, ref_range |-> ref, observations |-> obs]

\* Observation(date, value, flag_extracted) as extracted
ExtractedObservation(d, v, flag) ==
    [date |-> d, value |-> v, flag_extracted |-> flag, flag_computed |-> NoFlag,
     source_image_id |-> ""]

\* The two analytes of MockExtractor
SodiumSmoke ==
    UpstreamAnalyte(SodiumName, Spell("sodium"), SodiumName, MmolPerL, MmolPerL,
                    TwoSidedText(13600000, 14500000), RangeUnbounded,
                    <<ExtractedObservation(1, 14800000, "high")>>)
PotassiumSmoke ==
    UpstreamAnalyte(PotassiumName, Spell("potassium"), PotassiumName, MmolPerL,
                    MmolPerL, TwoSidedText(350000, 510000), RangeUnbounded,
                    <<ExtractedObservation(1, 320000, "low")>>)
\* The analyte of CriticalExtractor
PotassiumCritical ==
    UpstreamAnalyte(PotassiumName, Spell("potassium"), NoText, MmolPerL, MmolPerL,
                    TwoSidedText(350000, 510000), RangeUnbounded,
                    <<ExtractedObservation(1, 700000, NoFlag)>>)
\* A row with nothing filled in upstream and a flag the range does not bear out
PotassiumBare ==
    UpstreamAnalyte(<<"K", "+">>, NoText, NoText, <<"m", "m", "o", "l", "/", "l">>,
                    NoText, TwoSidedText(350000, 510000), RangeUnbounded,
                    <<ExtractedObservation(2, 520000, "critical_high")>>)
\* A row whose key upstream is an abbreviation
PotassiumAbbrev ==
    UpstreamAnalyte(PotassiumName, <<"K">>, <<"K">>, MmolPerL, MmolPerL,
                    TwoSidedText(350000, 510000), RangeUnbounded,
                    <<ExtractedObservation(2, 550000, "high")>>)
\* A row whose key upstream is the raw name, with a range but no range text
SodiumRawKey ==
    UpstreamAnalyte(<<"N", "a">>, <<"N", "a">>, NoText, <<"m", "E", "q", "/", "L">>,
                    NoText, NoRangeText, RangeFromTwoSided(13600000, 14500000),
                    <<ExtractedObservation(2, 14000000, NoFlag)>>)
\* A row whose range upstream differs from its range text, with a computed
\* flag supplied upstream
SodiumRangeKept ==
    UpstreamAnalyte(SodiumName, Spell("sodium"), SodiumName, MmolPerL, MmolPerL,
                    TwoSidedText(13600000, 14500000),
                    RangeFromTwoSided(13500000, 14600000),
                    <<[ExtractedObservation(2, 14550000, "high")
                          EXCEPT !.flag_computed = "critical_low"]>>)
\* A row with a qualitative range and a name no alias covers
SerumK ==
    UpstreamAnalyte(<<"S", "e", "r", "u", "m", " ", " ", "K", ":">>, NoText, NoText,
                    NoText, NoText, QualitativeText, RangeUnbounded,
                    <<ExtractedObservation(1, 400000, "low")>>)
\* A row with an upper bound only
PotassiumUpperOnly ==
    UpstreamAnalyte(<<" ", "P", "o", "t", ".">>, NoText, NoText, MmolPerL, NoText,
                    UpperOnlyText(510000), RangeUnbounded,
                    <<ExtractedObservation(1, 520000, NoFlag),
                      ExtractedObservation(2, 320000, "low")>>)
\* A row without a value
SodiumEmpty ==
    UpstreamAnalyte(<<"N", "a", "+">>, NoText, NoText, MmolPerL, MmolPerL,
                    TwoSidedText(13600000, 14500000), RangeUnbounded, <<>>)

UpstreamAnalytes ==
    {SodiumSmoke, PotassiumSmoke, PotassiumCritical, PotassiumBare, PotassiumAbbrev,
     SodiumRawKey, SodiumRangeKept, SerumK, PotassiumUpperOnly, SodiumEmpty}

\* The rows of one report
UpstreamResults ==
    {<<a>> : a \in UpstreamAnalytes}
    \cup {<<SodiumSmoke, PotassiumSmoke>>, <<PotassiumCritical, SodiumSmoke>>,
          <<PotassiumBare, PotassiumAbbrev>>, <<SodiumRangeKept, PotassiumCritical>>}

InitPipeline ==
    /\ ConcIdle
    /\ CacheIdle
    /\ MergeIdle
    /\ FlagIdle
    /\ ParseIdle
    /\ image_paths \in UNION {[1..n -> PathStates] : n \in 0..MaxPaths}
    /\ max_images \in 1..MaxPaths
    /\ mode \in {"full", "extract_only"}
    /\ enable_summary \in BOOLEAN
    /\ pc = "load"
    /\ extract_calls = {}
    /\ extracted = <<>>
    /\ error = None
    /\ trends = <<>>
    /\ critical_flags = <<>>
    /\ summary = ""
    /\ summarize_calls = 0

NextPipeline ==
    \/ LoadImages /\ UNCHANGED <<concVars, cacheVars, flagVars, parseVars>>
    \/ \E i \in 1..MaxPaths, results \in UpstreamResults :
          ExtractImage(i, results) /\ UNCHANGED <<concVars, cacheVars, flagVars, parseVars>>
    \/ \E i \in 1..MaxPaths, fault \in Faults :
          ExtractFails(i, fault) /\ UNCHANGED <<concVars, cacheVars, flagVars, parseVars>>
    \/ ExtractionRaises /\ UNCHANGED <<concVars, cacheVars, flagVars, parseVars>>
    \/ Analyse /\ UNCHANGED <<concVars, cacheVars, flagVars, parseVars>>
    \/ PostprocessOnly /\ UNCHANGED <<concVars, cacheVars, flagVars, parseVars>>
    \/ Summarize /\ UNCHANGED <<concVars, cacheVars, flagVars, parseVars>>
    \/ SummarizeFails /\ UNCHANGED <<concVars, cacheVars, flagVars, parseVars>>

SpecPipeline == InitPipeline /\ [][NextPipeline]_vars

\* compute_trend over every short series of values, dated in order, whose
\* latest observation carries any pair of flags.
TrendValues == {400000, 500000, 600000}
AllFlags == {"normal", "low", "high", "critical_low", "critical_high"}

TrendSeries(values, computed, shown) ==
    [i \in DOMAIN values |->
        [date |-> i, value |-> values[i],
         flag_extracted |-> IF i = Len(values) THEN shown ELSE NoFlag,
         flag_computed |-> IF i = Len(values) THEN computed ELSE "normal",
         source_image_id |-> "img1"]]

InitTrend ==
    /\ ConcIdle
    /\ CacheIdle
    /\ FlagIdle
    /\ ParseIdle
    /\ reports = <<>>
    /\ mergePhase = "idle"
    /\ \E n \in 1..MaxSeries :
         \E values \in [1..n -> TrendValues],
            computed \in AllFlags \cup {NoFlag}, shown \in {NoFlag, "low"} :
            merged = <<[PotassiumSmoke EXCEPT
                          !.observations = TrendSeries(values, computed, shown)]>>
    /\ image_paths = <<>>
    /\ max_images = 0
    /\ mode = "idle"
    /\ enable_summary = FALSE
    /\ pc = "trend"
    /\ extract_calls = {}
    /\ extracted = <<>>
    /\ error = None
    /\ trends = <<>>
    /\ critical_flags = <<>>
    /\ summary = ""
    /\ summarize_calls = 0

NextTrend == ComputeTrends /\ UNCHANGED <<concVars, cacheVars, flagVars, parseVars>>

SpecTrend == InitTrend /\ [][NextTrend]_vars

\* The merged timeline handed to the trend and severity steps: analytes as
\* post-processing leaves them, each with its own key, in every order.
Timeline(name, lo, hi, values) ==
    NormalizeAnalyte(
        UpstreamAnalyte(name, Lower(name), name, MmolPerL, MmolPerL,
                        TwoSidedText(lo, hi), RangeUnbounded,
                        [i \in DOMAIN values |->
                            [ExtractedObservation(i, values[i], NoFlag)
                                EXCEPT !.source_image_id = "img1"]]))

PotassiumFalling == Timeline(PotassiumName, 350000, 510000, <<1000000, 950000>>)
CreatinineRising ==
    Timeline(<<"C", "r", "e", "a", "t", "i", "n", "i", "n", "e">>, 60000, 120000,
             <<50000, 140000>>)
UreaSurging == Timeline(<<"U", "r", "e", "a">>, 60000, 120000, <<30000, 140000>>)
SodiumHighOnce == Timeline(SodiumName, 13600000, 14500000, <<14800000>>)
CalciumNormal ==
    Timeline(<<"C", "a", "l", "c", "i", "u", "m">>, 210000, 260000, <<230000>>)
MagnesiumSteady ==
    Timeline(<<"M", "a", "g", "n", "e", "s", "i", "u", "m">>, 70000, 100000,
             <<80000, 80000>>)
GlucoseSwinging ==
    Timeline(<<"G", "l", "u", "c", "o", "s", "e">>, 390000, 560000,
             <<380000, 370000, 380000, 370000>>)
PhosphateFalling ==
    Timeline(<<"P", "h", "o", "s", "p", "h", "a", "t", "e">>, 80000, 150000,
             <<40000, 20000>>)

SeverityTimelines ==
    {PotassiumFalling, CreatinineRising, UreaSurging, SodiumHighOnce, CalciumNormal,
     MagnesiumSteady, GlucoseSwinging, PhosphateFalling}

InitSeverity ==
    /\ ConcIdle
    /\ CacheIdle
    /\ FlagIdle
    /\ ParseIdle
    /\ reports = <<>>
    /\ mergePhase = "idle"
    /\ \E n \in 1..MaxTrends :
         \E timeline \in [1..n -> SeverityTimelines] :
            /\ \A i, j \in 1..n : timeline[i] = timeline[j] => i = j
            /\ merged = timeline
    /\ image_paths = <<>>
    /\ max_images = 0
    /\ mode = "idle"
    /\ enable_summary = FALSE
    /\ pc = "severity"
    /\ extract_calls = {}
    /\ extracted = <<>>
    /\ error = None
    /\ trends = <<>>
    /\ critical_flags = <<>>
    /\ summary = ""
    /\ summarize_calls = 0

NextSeverity == SortTrends /\ UNCHANGED <<concVars, cacheVars, flagVars, parseVars>>

SpecSeverity == InitSeverity /\ [][NextSeverity]_vars

\* parse_reference_range over every text of up to MaxText characters of a
\* small alphabet, and over the texts of the test suite and a few more.
ParseAlphabet ==
    {"1", ".", "-", "+", EnDash, "<", ">", "=", " ", "t", "o", ";", ":"}
\* tests/test_reference_ranges.py
TestTexts ==
    { <<"3", ".", "5", " ", "-", " ", "5", ".", "1">>,
      <<"3", ".", "5", EnDash, "5", ".", "1">>,
      <<"3", ".", "5", EmDash, "5", ".", "1">>,
      <<"3", ".", "5", " ", "t", "o", " ", "5", ".", "1">>,
      <<"<", "=", " ", "5", ".", "0">>,
      <<LessOrEqualSign, "5", ".", "0">>,
      <<"<", " ", "5", ".", "0">>,
      <<">", "=", " ", "1", ".", "0">>,
      <<GreaterOrEqualSign, "1", ".", "0">>,
      <<">", " ", "1", ".", "0">>,
      <<"A", "d", "u", "l", "t", ":", " ", "3", ".", "5", "-", "5", ".", "1", ";", " ", "C", "h", "i", "l", "d", ":", " ", "3", ".", "0", "-", "4", ".", "5">>,
      <<"N", "e", "g", "a", "t", "i", "v", "e">>,
      <<"N", "o", "n", "-", "r", "e", "a", "c", "t", "i", "v", "e">>,
      <<"3", ".", "5", " ", "-", " ", "5", ".", "1", " ", "m", "m", "o", "l", "/", "L">>,
      <<"4", " ", "-", " ", "1", "1">>,
      <<"0", ".", "5", "0", " ", "-", " ", "1", ".", "2", "0">> }
MoreTexts ==
    { <<" ", " ", "N", "O", "R", "M", "A", "L", " ">>,
      <<"N", "o", "t", " ", "D", "e", "t", "e", "c", "t", "e", "d">>,
      <<"<", "5", ".", "0", ";", "3", ".", "5", "-", "5", ".", "1">>,
      <<"M", ":", " ", ">", "1", ".", "0", ";", " ", "F", ":", " ", "<", "2">>,
      <<"-", "2", ".", "0", " ", "-", " ", "0">>,
      <<"+", "1", " ", EmDash, " ", "-", "1">>,
      <<"n", "/", "a">>,
      <<"1", ".", "5", " ", "T", "O", " ", "2">>,
      <<"s", "e", "e", " ", "n", "o", "t", "e", ":", " ", "2">> }
RangeTexts ==
    UNION {[1..n -> ParseAlphabet] : n \in 0..MaxText} \cup TestTexts \cup MoreTexts

InitParse ==
    /\ ConcIdle
    /\ CacheIdle
    /\ MergeIdle
    /\ FlagIdle
    /\ PipeIdle
    /\ range_text \in RangeTexts
    /\ parsed = None

NextParse == ParseRange /\ UNCHANGED <<concVars, cacheVars, mergeVars, flagVars, pipeVars>>

SpecParse == InitParse /\ [][NextParse]_vars

(***************************************************************************)
(* Claims                                                                  *)
(***************************************************************************)

C2_OrderPreserved ==
    (phase = "returned" /\ ~AnyFailed) =>
        /\ outcome.kind = "returned"
        /\ Len(outcome.value) = Len(images)
        /\ \A i \in Tasks : outcome.value[i] = taskResult[i].val

C2_Witness ==
    /\ phase = "returned"
    /\ Len(images) >= 2
    /\ finishOrder[1] # 1

\* C3: at most max_concurrent tasks are inside their external call at any
\* time, and every slot is either free or held by a running task (a task that
\* fails has given its slot back).
C3_BoundedConcurrency ==
    /\ Cardinality(Running) <= max_concurrent
    /\ sem + Cardinality(Running) = max_concurrent

C3_Witness ==
    /\ max_concurrent >= 1
    /\ Cardinality(Running) = max_concurrent
    /\ lateStarts \cap Running # {}
    /\ \E i \in Tasks : st[i] = "pending"

\* C4 (as stated): with the cache enabled, an image whose hash is cached never
\* reaches the external extraction call, and every extraction that returned
\* has been written to the cache.
C4_CacheConsulted ==
    cache_enabled =>
        \A i \in Tasks :
            /\ st[i] # "pending" => files[images[i]] # "valid"
            /\ st[i] = "done" => files[images[i]] = "valid"

\* C5: DiskCache.get never raises, returns None unless the entry is a valid
\* report, and leaves the cache as it was; DiskCache.put never raises either.
C5_CacheNeverRaises ==
    /\ [](cacheCall.kind \in {"get", "put"} => cacheCall.raised = "no")
    /\ [](cacheCall.kind = "get" /\ cacheCall.entry # "valid" =>
              cacheCall.result = "None")
    /\ [][cacheCall'.kind = "get" => files' = files]_vars

C5_Witness ==
    /\ cacheCall.kind = "get"
    /\ cacheCall.entry \in {"unreadable", "partial", "invalid"}
    /\ cacheCall.result = "None"

\* ---- what the claims about merge_reports speak of ----
\* Every analyte of the input.
InputAnalytes ==
    UNION {{reports[r].results[a] : a \in DOMAIN reports[r].results} :
              r \in DOMAIN reports}

DateValue(obs) == <<obs.date, obs.value>>

\* The reports that hold, under merge key k, an observation with this (date, value).
ReportsHolding(k, dv) ==
    {r \in DOMAIN reports :
        \E a \in DOMAIN reports[r].results :
            /\ MergeKey(reports[r].results[a]) = k
            /\ \E o \in DOMAIN reports[r].results[a].observations :
                  DateValue(reports[r].results[a].observations[o]) = dv}

Max(S) == CHOOSE x \in S : \A y \in S : x >= y

\* C6: the merged analyte holds exactly one observation per (date, value)
\* found under its merge key, tagged with the id of the last report in input
\* order that holds it.
C6_LastReportWins ==
    mergePhase = "merged" =>
        \A i \in DOMAIN merged :
            LET k == MergeKey(merged[i])
                obs == merged[i].observations
            IN /\ \A p, q \in DOMAIN obs :
                      DateValue(obs[p]) = DateValue(obs[q]) => p = q
               /\ \A p \in DOMAIN obs :
                      LET holders == ReportsHolding(k, DateValue(obs[p]))
                      IN /\ holders # {}
                         /\ obs[p].source_image_id =
                                reports[Max(holders)].source_image_id
               /\ \A a \in InputAnalytes :
                      MergeKey(a) = k =>
                          \A o \in DOMAIN a.observations :
                              \E p \in DOMAIN obs :
                                  DateValue(obs[p]) = DateValue(a.observations[o])

C6_Witness ==
    /\ mergePhase = "merged"
    /\ \E i \in DOMAIN merged : \E p \in DOMAIN merged[i].observations :
          LET holders == ReportsHolding(MergeKey(merged[i]),
                                        DateValue(merged[i].observations[p]))
          IN /\ Cardinality(holders) >= 2
             /\ reports[Min(holders)].source_image_id
                    # reports[Max(holders)].source_image_id

\* What C7 compares: per merged analyte, its merge key, how many observations
\* it has, and their (date, value) pairs.
Summary(result) ==
    {[key |-> MergeKey(result[i]),
      count |-> Len(result[i].observations),
      pairs |-> {DateValue(result[i].observations[p]) :
                    p \in DOMAIN result[i].observations}] : i \in DOMAIN result}

\* C7: merging the report list concatenated with itself gives the same merged
\* analytes, each with the same number of observations and the same
\* (date, value) pairs, as merging the list once.
C7_MergeIdempotent ==
    mergePhase = "merged" =>
        /\ Len(MergeReports(reports \o reports)) = Len(merged)
        /\ Summary(MergeReports(reports \o reports)) = Summary(merged)

C7_Witness ==
    /\ mergePhase = "merged"
    /\ Len(reports) >= 2
    /\ \E i \in DOMAIN merged : Len(merged[i].observations) >= 2

ExactIdentity(a) == <<a.analyte_key, a.unit_canonical, a.ref_range>>

\* C8 (as stated): input analytes share an output analyte only if their
\* analyte_key, unit_canonical and range (low and high) are exactly equal, so
\* there are as many output analytes as distinct (key, unit, range) triples.
C8_ExactMatchOnly ==
    mergePhase = "merged" =>
        Len(merged) = Cardinality({ExactIdentity(a) : a \in InputAnalytes})

\* Two optional bounds agree to four decimal places: both absent, or of the
\* same sign with the same rounded magnitude.
SameTo4(x, y) ==
    \/ x = NoBound /\ y = NoBound
    \/ /\ x # NoBound /\ y # NoBound
       /\ (x[1] < 0) = (y[1] < 0)
       /\ (Abs(x[1]) + 5) \div 10 = (Abs(y[1]) + 5) \div 10

MergeEquivalent(a, b) ==
    /\ a.analyte_key \o Sep \o a.unit_canonical
           = b.analyte_key \o Sep \o b.unit_canonical
    /\ SameTo4(a.ref_range.low, b.ref_range.low)
    /\ SameTo4(a.ref_range.high, b.ref_range.high)

Template(a) == [a EXCEPT !.observations = <<>>]

\* C8 (amended): input analytes share an output analyte exactly when the text
\* analyte_key|unit_canonical is the same and low and high each agree to four
\* decimal places (or are both absent): every input analyte has its output
\* analyte, and no two output analytes are equivalent in that sense.
C8_MergeByRoundedKey ==
    mergePhase = "merged" =>
        /\ \A a \in InputAnalytes :
              \E i \in DOMAIN merged : MergeEquivalent(a, merged[i])
        /\ \A i, j \in DOMAIN merged :
              MergeEquivalent(merged[i], merged[j]) => i = j
        /\ \A i \in DOMAIN merged :
              \E a \in InputAnalytes : Template(a) = Template(merged[i])

C8_Witness ==
    /\ mergePhase = "merged"
    /\ Len(merged) = 1
    /\ \E a, b \in InputAnalytes :
          /\ a.analyte_key = b.analyte_key
          /\ a.unit_canonical = b.unit_canonical
          /\ a.ref_range # b.ref_range

\* C9: every merged analyte has its observations in non-decreasing date order,
\* and an empty report list gives an empty result.
C9_SortedByDate ==
    mergePhase = "merged" =>
        /\ \A i \in DOMAIN merged :
              \A p, q \in DOMAIN merged[i].observations :
                  p < q => merged[i].observations[p].date
                               <= merged[i].observations[q].date
        /\ (reports = <<>> => merged = <<>>)

C9_Witness ==
    /\ mergePhase = "merged"
    /\ \E a \in InputAnalytes :
          /\ Len(a.observations) >= 2
          /\ a.observations[1].date > a.observations[2].date

\* C10 (as stated): for every bounded range, in whatever order its bounds
\* stand, a value equal to the range's low or to its high is flagged normal.
C10_BoundaryIsNormal ==
    ( /\ observation.flag_computed # NoFlag
      /\ IsBounded(ref_range)
      /\ \/ ref_range.low = Bound(observation.value)
         \/ ref_range.high = Bound(observation.value) )
        => observation.flag_computed = "normal"

\* The one analyte of the flag specifications, once its flag is computed
FlagDone == observation.flag_computed # NoFlag
TwoSided == ref_range.low # NoBound /\ ref_range.high # NoBound
UpperOnly == ref_range.low = NoBound /\ ref_range.high # NoBound
LowerOnly == ref_range.low # NoBound /\ ref_range.high = NoBound
ProperRange == TwoSided /\ ref_range.low[1] < ref_range.high[1]
\* hi + (hi - lo) * m for the range and the key of the state
UpperThreshold ==
    ref_range.high[1]
      + ((ref_range.high[1] - ref_range.low[1]) * Multiplier(analyte_key)) \div 100

\* C11 (as stated): for every analyte key, the override entries and the
\* default alike, and every range lo < hi, the value one step above
\* hi + (hi-lo)*m is critical_high and the value one step below it is high.
C11_ThresholdEveryKey ==
    (FlagDone /\ ProperRange) =>
        /\ (observation.value = UpperThreshold + 1
               => observation.flag_computed = "critical_high")
        /\ (observation.value = UpperThreshold - 1
               => observation.flag_computed = "high")

\* C11 (amended): the same for every key whose multiplier is positive; for a
\* key whose multiplier is 0 the threshold is hi itself, so the value one step
\* above is critical_high and the value one step below lies in the range and
\* is normal.
C11_ThresholdPositiveMultiplier ==
    (FlagDone /\ ProperRange) =>
        /\ (observation.value = UpperThreshold + 1
               => observation.flag_computed = "critical_high")
        /\ (observation.value = UpperThreshold - 1
               => observation.flag_computed =
                     IF Multiplier(analyte_key) > 0 THEN "high" ELSE "normal")

C11_Witness ==
    /\ FlagDone
    /\ ProperRange
    /\ analyte_key = "calcium"
    /\ ref_range.low[1] # 0
    /\ observation.value = UpperThreshold - 1
    /\ observation.flag_computed = "high"

\* C12 (as stated): against a range with one bound only, every value beyond
\* the bound is critical, never high or low.
C12_NoSoftZone ==
    FlagDone =>
        /\ (UpperOnly /\ observation.value > ref_range.high[1]
               => observation.flag_computed = "critical_high")
        /\ (LowerOnly /\ observation.value < ref_range.low[1]
               => observation.flag_computed = "critical_low")

\* C12 (amended): a lower-only range has no soft zone, every value below the
\* bound being critical_low.  An upper-only range with a positive bound h is
\* treated as the range 0..h: a value above h is high when it is below
\* h + h*m and critical_high when it is above h + h*m; with a bound h <= 0
\* every value above h is critical_high.
C12_SingleSided ==
    FlagDone =>
        /\ (LowerOnly /\ observation.value < ref_range.low[1]
               => observation.flag_computed = "critical_low")
        /\ (UpperOnly /\ observation.value > ref_range.high[1] =>
               LET h == ref_range.high[1]
                   threshold100 == 100 * h + h * Multiplier(analyte_key)
               IN /\ (h > 0 /\ 100 * observation.value < threshold100
                        => observation.flag_computed = "high")
                  /\ (h <= 0 \/ 100 * observation.value > threshold100
                        => observation.flag_computed = "critical_high"))

C12_Witness ==
    /\ FlagDone
    /\ UpperOnly
    /\ analyte_key = "potassium"
    /\ ref_range.high[1] = 510000
    /\ observation.value = 611999
    /\ observation.flag_computed = "high"

\* C14: the multiplier is the override of a listed key and 0.50 of any other
\* key.  Against 3.5-5.1 potassium is critical_high above 5.42, high below
\* it and low (not critical_low) at 3.2; against 136-145 sodium is
\* critical_high above 145.9; for the troponins every value above high is
\* critical_high; an unlisted key has its thresholds at 5.9, 2.7 and 149.5.
PotassiumRange == RangeFromTwoSided(350000, 510000)
SodiumRange == RangeFromTwoSided(13600000, 14500000)
FlagBetween(lowest, highest, flag) ==
    (observation.value > lowest /\ observation.value < highest)
        => observation.flag_computed = flag
FlagAbove(n, flag) == observation.value > n => observation.flag_computed = flag
FlagAt(n, flag) == observation.value = n => observation.flag_computed = flag

C14_MultiplierResolved ==
    FlagDone =>
        /\ (analyte_key = "potassium" /\ ref_range = PotassiumRange =>
               /\ FlagAbove(542000, "critical_high")
               /\ FlagBetween(510000, 542000, "high")
               /\ FlagAt(320000, "low"))
        /\ (analyte_key = "sodium" /\ ref_range = SodiumRange =>
               /\ FlagAbove(14590000, "critical_high")
               /\ FlagBetween(14500000, 14590000, "high"))
        /\ (analyte_key \in {"troponin_i", "troponin_t"}
              /\ ref_range.high # NoBound =>
               FlagAbove(ref_range.high[1], "critical_high"))
        /\ (analyte_key \notin OverrideKeys /\ ref_range = PotassiumRange =>
               /\ FlagAbove(590000, "critical_high")
               /\ FlagBetween(510000, 590000, "high")
               /\ FlagBetween(270000, 350000, "low")
               /\ FlagAt(269999, "critical_low"))
        /\ (analyte_key \notin OverrideKeys /\ ref_range = SodiumRange =>
               /\ FlagAbove(14950000, "critical_high")
               /\ FlagBetween(14500000, 14950000, "high"))

C14_Witness ==
    /\ FlagDone
    /\ analyte_key = "potassium"
    /\ ref_range = PotassiumRange
    /\ observation.value = 320000
    /\ observation.flag_computed = "low"

\* The AnalysisReport of run_full_pipeline is assembled (and, at "done",
\* returned); run_extract_only has returned its reports.
Analysed == mode = "full" /\ pc \in {"summary", "done"}
Postprocessed == Analysed \/ (mode = "extract_only" /\ pc = "done")
\* The analytes of the reports, by report and row
Rows == UNION {{<<r, a>> : a \in DOMAIN reports[r].results} : r \in DOMAIN reports}
Upstream(row) == extracted[row[1]].results[row[2]]
Processed(row) == reports[row[1]].results[row[2]]
CriticalPair == {"critical_high", "critical_low"}
SodiumKey == <<"s", "o", "d", "i", "u", "m">>
PotassiumKey == <<"p", "o", "t", "a", "s", "s", "i", "u", "m">>
\* The run was over one report that holds sodium 148 against '136 - 145'
SodiumScenario ==
    /\ Analysed
    /\ Len(image_paths) = 1
    /\ \E row \in Rows : Upstream(row) = SodiumSmoke

\* C13 (as stated): in a full run over a single report with sodium 148
\* against '136 - 145', the observation's flag_computed and the sodium trend's
\* latest_flag are high, and the sodium trend is not among critical_flags.
C13_SodiumHigh ==
    SodiumScenario =>
        /\ \A row \in Rows : Upstream(row) = SodiumSmoke =>
              Processed(row).observations[1].flag_computed = "high"
        /\ \A i \in DOMAIN trends : trends[i].analyte_key = SodiumKey =>
              trends[i].latest_flag = "high"
        /\ \A i \in DOMAIN critical_flags :
              critical_flags[i].analyte_key # SodiumKey

\* C13 (amended): in that run the sodium override 0.10 puts the threshold at
\* 145.9, so the observation's flag_computed and the sodium trend's
\* latest_flag are critical_high, and the sodium trend is among
\* critical_flags.
C13_SodiumCritical ==
    SodiumScenario =>
        /\ \A row \in Rows : Upstream(row) = SodiumSmoke =>
              Processed(row).observations[1].flag_computed = "critical_high"
        /\ \E i \in DOMAIN trends : trends[i].analyte_key = SodiumKey
        /\ \A i \in DOMAIN trends : trends[i].analyte_key = SodiumKey =>
              /\ trends[i].latest_flag = "critical_high"
              /\ \E j \in DOMAIN critical_flags : critical_flags[j] = trends[i]

C13_Witness ==
    /\ SodiumScenario
    /\ pc = "done"
    /\ Len(trends) = 2
    /\ \E j \in DOMAIN critical_flags : critical_flags[j].analyte_key = SodiumKey

\* C15: critical_flags is the list of the trends whose latest_flag is
\* critical_high or critical_low, each once and in the order they have in
\* trends, which is by falling severity; a potassium trend whose latest value
\* is 7.0 against 3.5-5.1 is among them.
CriticalIndexes == {i \in DOMAIN trends : trends[i].latest_flag \in CriticalPair}
\* The k-th smallest element of a set of numbers
Nth(S, k) == CHOOSE x \in S : Cardinality({y \in S : y < x}) = k - 1

C15_CriticalFlagsAreFilter ==
    Analysed =>
        /\ Len(critical_flags) = Cardinality(CriticalIndexes)
        /\ \A k \in DOMAIN critical_flags :
              critical_flags[k] = trends[Nth(CriticalIndexes, k)]
        /\ \A i, j \in DOMAIN trends :
              i < j => trends[i].severity_score >= trends[j].severity_score
        /\ \A i \in DOMAIN trends :
              ( /\ trends[i].analyte_key = PotassiumKey
                /\ trends[i].latest_value = Bound(700000)
                /\ trends[i].observations[Len(trends[i].observations)].flag_computed
                      = "critical_high" )
                => \E k \in DOMAIN critical_flags : critical_flags[k] = trends[i]

C15_Witness ==
    /\ Analysed
    /\ Len(trends) = 3
    /\ Len(critical_flags) = 2
    /\ trends[3].latest_flag \notin CriticalPair
    /\ \E k \in DOMAIN critical_flags :
          /\ critical_flags[k].analyte_key = PotassiumKey
          /\ critical_flags[k].latest_value = Bound(700000)

\* C16 (as stated): after post-processing every analyte's analyte_key is the
\* output of the analyte-key normalizer for its raw_name, whatever key was
\* supplied upstream, so that analytes naming the same test carry the same
\* key into merge.
C16_KeyCanonical ==
    Postprocessed =>
        \A row \in Rows :
            Processed(row).analyte_key = NormalizeAnalyteKey(Processed(row).raw_name)

\* C17: after post-processing every observation has a flag_computed, the one
\* compute_flag gives for its value against the analyte's final range and
\* key; every trend's latest_flag is the flag_computed of its latest
\* observation, whatever flag the report showed; flag_extracted is as
\* extracted; and a run fails only in validation, in an extraction or in
\* the summary (a discrepancy raises nothing).
C17_RecomputedFlagRules ==
    /\ Postprocessed =>
          \A row \in Rows :
             \A o \in DOMAIN Processed(row).observations :
                LET obs == Processed(row).observations[o]
                IN /\ obs.flag_computed \in AllFlags
                   /\ obs.flag_computed =
                         compute_flag(obs.value, Processed(row).ref_range,
                                      KeyName(Processed(row).analyte_key))
                   /\ obs.flag_extracted =
                         Upstream(row).observations[o].flag_extracted
    /\ Analysed =>
          \A i \in DOMAIN trends :
             trends[i].observations # <<>> =>
                LET last == trends[i].observations[Len(trends[i].observations)]
                IN /\ \A o \in DOMAIN trends[i].observations :
                         trends[i].observations[o].date <= last.date
                   /\ trends[i].latest_flag = last.flag_computed
    /\ pc = "failed" =>
          \/ error.class = "ImageValidationError"
          \/ error.class = "ExtractionError" /\ FailedExtractions # {}
          \/ error.class = "SummaryError" /\ enable_summary

C17_Witness ==
    /\ Analysed
    /\ \E i \in DOMAIN trends :
          /\ Len(trends[i].observations) = 2
          /\ trends[i].observations[2].flag_extracted = "critical_high"
          /\ trends[i].observations[2].flag_computed = "high"
          /\ trends[i].latest_flag = "high"

\* C18: post-processing keeps what upstream filled in -- a non-empty
\* analyte_key other than raw_name, a non-empty display_name, a non-empty
\* unit_canonical, a bounded ref_range -- and never touches raw_name,
\* raw_unit, raw_range_text, unit, or an observation's date, value and
\* flag_extracted; flag_computed is written whatever it held.
C18_UpstreamFieldsKept ==
    Postprocessed =>
        \A row \in Rows :
            LET before == Upstream(row)
                after == Processed(row)
            IN /\ (before.analyte_key # <<>> /\ before.analyte_key # before.raw_name
                     => after.analyte_key = before.analyte_key)
               /\ (before.display_name # <<>>
                     => after.display_name = before.display_name)
               /\ (before.unit_canonical # <<>>
                     => after.unit_canonical = before.unit_canonical)
               /\ (IsBounded(before.ref_range) => after.ref_range = before.ref_range)
               /\ after.raw_name = before.raw_name
               /\ after.raw_unit = before.raw_unit
               /\ after.raw_range_text = before.raw_range_text
               /\ after.unit = before.unit
               /\ Len(after.observations) = Len(before.observations)
               /\ \A o \in DOMAIN before.observations :
                     /\ after.observations[o].date = before.observations[o].date
                     /\ after.observations[o].value = before.observations[o].value
                     /\ after.observations[o].flag_extracted
                           = before.observations[o].flag_extracted
                     /\ after.observations[o].flag_computed
                           = compute_flag(after.observations[o].value, after.ref_range,
                                          KeyName(after.analyte_key))

C18_Witness ==
    /\ Postprocessed
    /\ \E row \in Rows :
          /\ Upstream(row) = SodiumRangeKept
          /\ Upstream(row).observations[1].flag_computed = "critical_low"
          /\ Processed(row).observations[1].flag_computed = "normal"
    /\ \E row \in Rows :
          /\ Upstream(row) = PotassiumAbbrev
          /\ Processed(row).analyte_key = <<"K">>

\* C19: when the image list is empty, longer than max_images, or holds an
\* image that is missing, oversized or of an unsupported type, the run ends
\* with an ImageValidationError that carries a reason, and extract is called
\* for no image, not even for a valid one earlier in the list.
InvalidInput ==
    \/ image_paths = <<>>
    \/ Len(image_paths) > max_images
    \/ \E i \in DOMAIN image_paths : image_paths[i] # "valid"

C19_ValidationFirst ==
    /\ InvalidInput =>
          /\ extract_calls = {}
          /\ pc \in {"load", "failed"}
          /\ pc = "failed" =>
                /\ error.class = "ImageValidationError"
                /\ error.reason # ""
    /\ (pc = "load" /\ InvalidInput) => ENABLED LoadImages
    /\ (pc = "failed" /\ error.class = "ImageValidationError") => InvalidInput

C19_Witness ==
    /\ pc = "failed"
    /\ Len(image_paths) = 2
    /\ image_paths[1] = "valid"
    /\ image_paths[2] = "unsupported"
    /\ error.class = "ImageValidationError"
    /\ extract_calls = {}

\* C20: for a series of two or more observations that is not fluctuating,
\* the direction is improving when the latest flag is high or critical_high
\* and the falls outnumber the rises, or it is low or critical_low and the
\* rises outnumber the falls; worsening in the two mirrored cases; stable
\* when rises and falls tie or the latest flag is normal.
Series == trends[1].observations
Rises == Cardinality({i \in 1..(Len(Series) - 1) : Series[i + 1].value > Series[i].value})
Falls == Cardinality({i \in 1..(Len(Series) - 1) : Series[i + 1].value < Series[i].value})
HighSide == trends[1].latest_flag \in {"high", "critical_high"}
LowSide == trends[1].latest_flag \in {"low", "critical_low"}

C20_DirectionTowardsNormal ==
    (pc = "done" /\ mode = "idle" /\ Len(Series) >= 2 /\ ~IsFluctuating(Series)) =>
        trends[1].direction =
            IF (HighSide /\ Falls > Rises) \/ (LowSide /\ Rises > Falls)
            THEN "improving"
            ELSE IF (HighSide /\ Rises > Falls) \/ (LowSide /\ Falls > Rises)
            THEN "worsening"
            ELSE "stable"

C20_Witness ==
    /\ pc = "done"
    /\ mode = "idle"
    /\ Len(Series) = 3
    /\ Falls = 2
    /\ trends[1].latest_flag = "high"
    /\ trends[1].direction = "improving"

\* C21: a series of three or more observations whose non-zero consecutive
\* differences change sign at least twice has direction fluctuating whatever
\* its latest flag is; a series with fewer than three observations or fewer
\* than two such sign changes never has direction fluctuating.
NonZeroDeltas == SelectSeq(Diffs(Series), LAMBDA d : d # 0)
SignChanges ==
    Cardinality({i \in 1..(Len(NonZeroDeltas) - 1) :
                    (NonZeroDeltas[i] > 0) # (NonZeroDeltas[i + 1] > 0)})

C21_FluctuatingFirst ==
    (pc = "done" /\ mode = "idle") =>
        (trends[1].direction = "fluctuating"
            <=> (Len(Series) >= 3 /\ SignChanges >= 2))

C21_Witness ==
    /\ pc = "done"
    /\ mode = "idle"
    /\ Len(Series) = 5
    /\ \E i \in 1..4 : Series[i + 1].value = Series[i].value
    /\ SignChanges = 2
    /\ trends[1].latest_flag = "normal"
    /\ trends[1].direction = "fluctuating"

\* C22: after sort_trends_by_severity every trend carries the score of its
\* own flag, direction and capped percent change (to two decimals), the
\* result holds exactly the trends it was given, scores never rise along
\* the list, and trends of equal score stand in the order they came in.
Sorted == pc = "sorted"
Unsorted == [a \in DOMAIN merged |-> ComputeTrend(merged[a])]
Unscored(t) == [t EXCEPT !.severity_score = 0]
Arrival(t) == CHOOSE i \in DOMAIN Unsorted : Unsorted[i] = Unscored(t)
FlagPoints(t) ==
    IF t.latest_flag \in {"critical_high", "critical_low"} THEN 100
    ELSE IF t.latest_flag \in {"high", "low"} THEN 50 ELSE 0
DirectionPoints(t) ==
    IF t.direction = "worsening" THEN 30
    ELSE IF t.direction = "fluctuating" THEN 15
    ELSE IF t.direction = "improving" THEN -10 ELSE 0
\* the exact sum in thousandths: pct_change is in hundredths, so a tenth of
\* it, in thousandths, is the same number
ExactScore(t) ==
    1000 * (FlagPoints(t) + DirectionPoints(t))
        + (IF Abs(t.pct_change) < 20000 THEN Abs(t.pct_change) ELSE 20000)

C22_ScoredAndStablySorted ==
    Sorted =>
        /\ Len(trends) = Len(Unsorted)
        /\ {Unscored(trends[i]) : i \in DOMAIN trends}
               = {Unsorted[i] : i \in DOMAIN Unsorted}
        /\ \A i \in DOMAIN trends :
              Abs(10 * trends[i].severity_score - ExactScore(trends[i])) <= 5
        /\ \A i, j \in DOMAIN trends :
              i < j =>
                 /\ trends[i].severity_score >= trends[j].severity_score
                 /\ trends[i].severity_score = trends[j].severity_score
                       => Arrival(trends[i]) < Arrival(trends[j])

C22_Witness ==
    /\ Sorted
    /\ Len(trends) = 3
    /\ trends[1].severity_score = trends[2].severity_score
    /\ trends[2].severity_score > trends[3].severity_score
    /\ Arrival(trends[1]) = 2
    /\ Arrival(trends[2]) = 3
    /\ Abs(trends[1].pct_change) > 20000

\* C23: in the severity-sorted trends every trend whose latest flag is
\* critical_high or critical_low stands before every trend whose latest flag
\* is high, low or normal.
C23_CriticalFirst ==
    Sorted =>
        \A i, j \in DOMAIN trends :
            (IsCritical(trends[j]) /\ ~IsCritical(trends[i])) => j < i

\* C25: the direction of a series of two or more observations is the one the
\* trend module documents: fluctuating when the values keep reversing,
\* improving when the latest flag is on the high side and the values fall or
\* it is on the low side and they rise, stable when the latest flag is normal
\* and the values neither rise nor fall, and worsening in every other case.
C25_DocumentedDirection ==
    (pc = "done" /\ mode = "idle" /\ Len(Series) >= 2) =>
        trends[1].direction =
            IF Len(Series) >= 3 /\ SignChanges >= 2 THEN "fluctuating"
            ELSE IF (HighSide /\ Falls > Rises) \/ (LowSide /\ Rises > Falls)
            THEN "improving"
            ELSE IF trends[1].latest_flag = "normal" /\ Rises = Falls
            THEN "stable"
            ELSE "worsening"

\* C30: against every two-sided range lo < hi, with hi = 0, lo = 0 or both
\* bounds negative included, a value below lo is low when it is not below
\* lo - (hi-lo)*m and critical_low when it is.
C30_LowSideMirrorsHigh ==
    (FlagDone /\ ProperRange /\ observation.value < ref_range.low[1]) =>
        observation.flag_computed =
            IF 100 * observation.value
                  < 100 * ref_range.low[1]
                      - (ref_range.high[1] - ref_range.low[1]) * Multiplier(analyte_key)
            THEN "critical_low" ELSE "low"

\* C29: when run_concurrently raises, every task of the batch has returned
\* or raised, and the failure raised is that of the failed task with the
\* smallest input index, in whatever order the tasks failed.
FailedTasks == {i \in Tasks : st[i] = "failed"}

C29_LowestIndexFailure ==
    /\ (phase = "raised" =>
            /\ AllFinished
            /\ FailedTasks # {}
            /\ outcome.exc = Failure(Min(FailedTasks)))
    /\ (phase = "returned" => FailedTasks = {})

C29_Witness ==
    /\ phase = "raised"
    /\ Cardinality(FailedTasks) >= 2
    /\ \E k \in DOMAIN finishOrder :
          /\ finishOrder[k] = Min(FailedTasks)
          /\ \E j \in 1..(k - 1) : finishOrder[j] \in FailedTasks
    /\ outcome.exc.task = Min(FailedTasks)

\* C28: under every concurrency ceiling, 0 included, and with every external
\* call ending, run_concurrently eventually returns or raises.
C28_RunEnds == <>(phase \in {"returned", "raised"})

\* With a ceiling of at least 1 it does.
RunEndsGivenSlot == (max_concurrent >= 1) => C28_RunEnds

\* C24: parse_reference_range returns a range for every text, with raw_text
\* the text as given.  The range is unbounded when the text is empty, blank
\* or qualitative; otherwise it has both bounds when the text holds two
\* numbers joined by a hyphen, an en-dash, an em-dash or "to" (each of the
\* four giving the same bounds), else a high bound only when it holds a
\* less-than sign before a number, else a low bound only when it holds a
\* greater-than sign before a number, else no bound.
IsNumber(w) ==
    /\ w # <<>>
    /\ LET body == IF w[1] \in {"+", "-"} THEN Tail(w) ELSE w
       IN /\ body # <<>>
          /\ \A i \in DOMAIN body : body[i] \in DigitChars \cup {"."}
          /\ Cardinality({i \in DOMAIN body : body[i] = "."}) <= 1
          /\ body[1] # "."
          /\ body[Len(body)] # "."
IsSeparator(w) == Strip(w) \in {<<"-">>, <<EnDash>>, <<EmDash>>, <<"t", "o">>}
HasRange(t) ==
    \E i, j \in DOMAIN t :
        /\ i <= j
        /\ IsNumber(SubSeq(t, i, j))
        /\ \E k, l \in DOMAIN t :
              /\ j + 1 < k
              /\ k <= l
              /\ IsSeparator(SubSeq(t, j + 1, k - 1))
              /\ IsNumber(SubSeq(t, k, l))
HasBound(t, signs) ==
    \E p, k, l \in DOMAIN t :
        /\ t[p] \in signs
        /\ p < k
        /\ k <= l
        /\ NoSpaces(SubSeq(t, p + 1, k - 1)) \in {<<>>, <<"=">>}
        /\ IsNumber(SubSeq(t, k, l))
\* The text is exactly two numbers and a separator
RangeAlone(t) ==
    {pr \in {<<j, k>> : j, k \in DOMAIN t} :
        /\ pr[1] + 1 < pr[2]
        /\ IsNumber(SubSeq(t, 1, pr[1]))
        /\ IsSeparator(SubSeq(t, pr[1] + 1, pr[2] - 1))
        /\ IsNumber(SubSeq(t, pr[2], Len(t)))}

C24_FirstRuleWins ==
    parsed # None =>
        LET text == Strip(range_text)
            segment == Segment(text)
        IN /\ parsed.raw_text = range_text
           /\ <<parsed.low # NoBound, parsed.high # NoBound>> =
                 IF text = <<>> \/ IsQualitative(text) THEN <<FALSE, FALSE>>
                 ELSE IF HasRange(segment) THEN <<TRUE, TRUE>>
                 ELSE IF HasBound(segment, UpperSigns) THEN <<FALSE, TRUE>>
                 ELSE IF HasBound(segment, LowerSigns) THEN <<TRUE, FALSE>>
                 ELSE <<FALSE, FALSE>>
           /\ \A pr \in RangeAlone(text) :
                 /\ parsed.low = Bound(FloatOf(SubSeq(text, 1, pr[1])))
                 /\ parsed.high = Bound(FloatOf(SubSeq(text, pr[2], Len(text))))

C24_Witness ==
    /\ range_text = <<"<", "1", EnDash, "1">>
    /\ parsed # None
    /\ parsed.low = Bound(100000)
    /\ parsed.high = Bound(100000)
    /\ HasBound(range_text, UpperSigns)

\* C26: an extraction call that fails with a transient fault (timeout, rate
\* limit, server error) is made again, MAX_RETRIES times in all, before the
\* batch fails with it; a call that fails otherwise is made once.
C26_TransientFaultRetried ==
    \A i \in FailedExtractions :
        Attempts(i) = IF extracted[i].reason \in TransientFaults
                      THEN MAX_RETRIES ELSE 1

\* C27: summarizer.summarize is called at most once, only in
\* run_full_pipeline with enable_summary true, and only once every image is
\* extracted and the reports are post-processed, merged, trended, sorted and
\* filtered; when validation or an extraction fails it is never called and
\* the coroutine raises instead of returning a report.
AnalysisAssembled ==
    /\ AllExtracted
    /\ FailedExtractions = {}
    /\ reports = TagObservations(PostprocessReports(extracted))
    /\ merged = MergeReports(PostprocessReports(extracted))
    /\ trends = sort_trends_by_severity(
                    [a \in DOMAIN merged |-> ComputeTrend(merged[a])])
    /\ critical_flags = SelectSeq(trends, IsCritical)
ValidationFails == LoadImagesReason(image_paths, max_images) # ""

C27_SummaryLastAndOnce ==
    /\ summarize_calls <= 1
    /\ (summarize_calls = 1 \/ pc = "summary") =>
            /\ mode = "full"
            /\ enable_summary
            /\ AnalysisAssembled
    /\ (summarize_calls = 1) <=> (summary # "" \/ (pc = "failed" /\ error.class = "SummaryError"))
    /\ (ValidationFails \/ FailedExtractions # {}) =>
            /\ summarize_calls = 0
            /\ pc \in {"load", "extract", "failed"}
            /\ summary = ""
            /\ trends = <<>>
    /\ (pc = "failed") <=> (error # None)
    /\ (pc = "done" /\ mode = "full" /\ enable_summary) => summarize_calls = 1

C27_Witness ==
    /\ pc = "done"
    /\ summarize_calls = 1
    /\ Len(image_paths) = 2
    /\ Len(trends) >= 2
    /\ critical_flags # <<>>
    /\ summary # ""

=============================================================================
